---- MODULE Spec2Model ----
(***************************************************************************)
(* The generation queue of Micro-Mango and its provider adapters.          *)
(*                                                                         *)
(*   queue store      src/src/stores/queueStore.ts                         *)
(*   settings store   src/src/stores/settingsStore.ts                      *)
(*   App              src/unnamed/part_002 (handleSubmit, processQueue,    *)
(*                    the queue watch effect)                              *)
(*   Google adapter   src/unnamed/part_012 (conservative retry policy)     *)
(*   OpenAI adapter   src/src/services/api/providers/openai.ts             *)
(*   BytePlus adapter src/unnamed/part_010                                 *)
(*   legacy adapter   src/src/services/api/nanoBanana.ts (bounded policy)  *)
(*                                                                         *)
(* JavaScript runs one continuation at a time, so every action below is    *)
(* one continuation: the code from one await (or one user event) to the    *)
(* next await.                                                             *)
(***************************************************************************)
EXTENDS Integers, Sequences, FiniteSets, TLC

(***************************************************************************)
(* Bounds of the model.                                                    *)
(***************************************************************************)
\* how many items addItem creates in one run (ids 1..MaxItems)
MaxItems == 2
\* in Spec: how many attempts of one adapter call the back end may fail
\* with a retryable error before it answers with a success or a fatal error
MaxFailAttempts == 1
\* largest argument getRetryInterval is applied to in SpecInterval
MaxConsecutive == 40
\* most lines a response body has in SpecParser
MaxLines == 3
\* most thought texts, and most interim images, one attempt receives
MaxThoughts == 1
\* the images one call of saveImages is given
MaxImages == 2
\* the thought parts with inline data that one attempt is answered with
MaxInterims == 2

(***************************************************************************)
(* Program constants.                                                      *)
(***************************************************************************)
\* part_012:5   const INITIAL_RETRY_INTERVAL_MS = 60 * 1000
INITIAL_RETRY_INTERVAL_MS == 60 * 1000
\* part_012:6
BACKOFF_THRESHOLD == 10
\* part_012:7   const BACKOFF_MULTIPLIER = 1.5, kept as the fraction 3/2
BACKOFF_MULTIPLIER_NUM == 3
BACKOFF_MULTIPLIER_DEN == 2
\* part_012:8   const MAX_RETRY_INTERVAL_MS = 24 * 60 * 60 * 1000
MAX_RETRY_INTERVAL_MS == 24 * 60 * 60 * 1000
\* part_012:9
MAX_RETRIES == 100
\* nanoBanana.ts:5   const RETRY_INTERVAL_MS = 30 * 1000
RETRY_INTERVAL_MS == 30 * 1000
\* nanoBanana.ts:6   const MAX_RETRIES = 30
LEGACY_MAX_RETRIES == 30

\* constants.ts:12-16
PROVIDER_MODELS ==
    [provider \in {"google", "openai", "byteplus"} |->
        CASE provider = "google" -> {"gemini-3-pro-image-preview", "gemini-2.5-flash-image"}
          [] provider = "openai" -> {"gpt-image-1.5", "gpt-image-1", "dall-e-3"}
          [] provider = "byteplus" -> {"seedream-4-5-251128", "seedream-4-0"}]
\* constants.ts:18-22
PROVIDER_DEFAULT_MODEL ==
    [provider \in {"google", "openai", "byteplus"} |->
        CASE provider = "google" -> "gemini-3-pro-image-preview"
          [] provider = "openai" -> "gpt-image-1.5"
          [] provider = "byteplus" -> "seedream-4-5-251128"]
\* constants.ts:2   PROVIDERS
PROVIDERS == {"google", "openai", "byteplus"}

\* settingsStore.ts:51-52   the resolution and aspect ratio of the settings
DEFAULT_RESOLUTION == "4K"
DEFAULT_ASPECT_RATIO == "16:9"

\* null for currentItemId and timerRef.current
NoItem == 0
\* undefined for the progress of an item (statusMessage, error and finalImage
\* are "" where undefined; an array that is undefined is read like [])
NoProgress == -1
ItemIds == 1..MaxItems

VARIABLES
    items,            \* queueStore: items, in array order
    db,               \* imageStorage: the records of the object store
    blob,             \* imageStorage: whether its calls fail, and whether a
                      \* failure of one has reached its caller
    loads,            \* the loadItemImages calls that await loadAllImages
    files,            \* the reference image lists the user submits with
    currentItemId,    \* queueStore: currentItemId
    nextId,           \* the next identity crypto.randomUUID() hands out
    isProcessingRef,  \* App: isProcessingRef.current
    timerRef,         \* App: timerRef.current (the item its interval ticks for)
    timers,           \* the intervals that were set and not cleared
    apiKeys,          \* settingsStore: apiKeys
    currentProvider,  \* settingsStore: currentProvider
    model,            \* settingsStore: model
    calls,            \* the adapter invocations that have not returned
    hist,             \* per item: attempts made, class of the failure of the
                      \* latest attempt, onError and onComplete calls
    failCap,          \* the attempts of one call the back end may fail retryably
    legacy,           \* one invocation of the legacy generateImageStream
    fn,               \* one application of getRetryInterval
    parser            \* one response stream under the event parser

queueVars == <<items, currentItemId, nextId, db, blob>>
appVars == <<isProcessingRef, timerRef, timers>>
settingsVars == <<apiKeys, currentProvider, model>>
vars == <<items, currentItemId, nextId, db, blob, isProcessingRef, timerRef, timers,
          apiKeys, currentProvider, model, calls, hist, failCap, loads, files, legacy,
          fn, parser>>

(***************************************************************************)
(* Retry intervals.  getRetryInterval works on JavaScript numbers; the     *)
(* values it produces below the 24 h cap are 60000 * 3^k / 2^k with        *)
(* k <= 17, which doubles hold exactly.  They are kept here as exact mixed *)
(* numbers whole + num/den milliseconds with 0 <= num < den.               *)
(***************************************************************************)
Ms(w) == [whole |-> w, num |-> 0, den |-> 1]

\* x < y for mixed numbers (the denominators are powers of one base, so the
\* larger one is a common denominator)
MsLess(x, y) ==
    LET d == IF x.den > y.den THEN x.den ELSE y.den
    IN  \/ x.whole < y.whole
        \/ x.whole = y.whole /\ x.num * (d \div x.den) < y.num * (d \div y.den)

MsLeq(x, y) == ~MsLess(y, x)

\* Math.min on integers
Min(a, b) == IF a < b THEN a ELSE b
Max(a, b) == IF a < b THEN b ELSE a

\* Math.min
MsMin(x, y) == IF MsLess(y, x) THEN y ELSE x

\* x * p / q, exactly
MsTimes(x, p, q) ==
    LET wp == x.whole * p
        r  == wp % q
        t  == r * x.den + x.num * p
        d  == x.den * q
    IN  [whole |-> (wp \div q) + (t \div d), num |-> t % d, den |-> d]

\* x * BACKOFF_MULTIPLIER^k; Math.pow grows without bound, and as the result
\* only meets Math.min(.., MAX_RETRY_INTERVAL_MS) the product is followed no
\* further once it has passed the cap (the multiplier is > 1)
RECURSIVE MsTimesPow(_, _)
MsTimesPow(x, k) ==
    IF k = 0 \/ MsLess(Ms(MAX_RETRY_INTERVAL_MS), x) THEN x
    ELSE MsTimesPow(MsTimes(x, BACKOFF_MULTIPLIER_NUM, BACKOFF_MULTIPLIER_DEN), k - 1)

\* getRetryInterval without the Math.min of its last line
getRetryInterval_NoCap(consecutiveSameErrors) ==
    IF consecutiveSameErrors <= BACKOFF_THRESHOLD
    THEN Ms(INITIAL_RETRY_INTERVAL_MS)
    ELSE MsTimesPow(Ms(INITIAL_RETRY_INTERVAL_MS),
                    consecutiveSameErrors - BACKOFF_THRESHOLD)

\* part_012:28-36
getRetryInterval(consecutiveSameErrors) ==
    IF consecutiveSameErrors <= BACKOFF_THRESHOLD
    THEN Ms(INITIAL_RETRY_INTERVAL_MS)
    ELSE LET backoffCount == consecutiveSameErrors - BACKOFF_THRESHOLD
             interval == MsTimesPow(Ms(INITIAL_RETRY_INTERVAL_MS), backoffCount)
         IN  MsMin(interval, Ms(MAX_RETRY_INTERVAL_MS))

(***************************************************************************)
(* The queue store.  The operations of the store and the callbacks of      *)
(* processQueue are functions on the record s of what they read and write: *)
(* the store's items and currentItemId, and App's refs; s.hist is the       *)
(* history the properties are stated on: per item of the queue the network *)
(* attempts made for it, the class of its last failed attempt, and the     *)
(* onError and onComplete calls of its adapter invocation, in order.       *)
(***************************************************************************)
Cur == [items |-> items, currentItemId |-> currentItemId, db |-> db, blob |-> blob,
        isProcessingRef |-> isProcessingRef, timerRef |-> timerRef,
        timers |-> timers, hist |-> hist]

Commit(s) ==
    /\ items' = s.items
    /\ db' = s.db
    /\ blob' = s.blob
    /\ currentItemId' = s.currentItemId
    /\ isProcessingRef' = s.isProcessingRef
    /\ timerRef' = s.timerRef
    /\ timers' = s.timers
    /\ hist' = s.hist

\* the history of an item nothing was done for
NoRequest == [prompt |-> "", referenceImages |-> <<>>, resolution |-> "",
              aspectRatio |-> ""]
NoHistory == [fetches |-> 0, lastFail |-> "none", log |-> <<>>, enqueued |-> NoRequest,
              completions |-> 0, received |-> <<>>]
NoHist == [id \in ItemIds |-> NoHistory]
\* the object store holds no record
NoDb == {}
\* the calls of imageStorage succeed, and none has thrown into its caller
NoBlob == [fails |-> FALSE, escaped |-> FALSE]
InQueue(its, id) == \E i \in DOMAIN its : its[i].id = id
\* history is kept for the items that are in the queue
Noted(s, h) == [s EXCEPT !.hist = [id \in ItemIds |-> IF InQueue(s.items, id) THEN h[id]
                                                      ELSE NoHistory]]
NoteFetch(s, id) == Noted(s, [s.hist EXCEPT ![id].fetches = @ + 1,
                                             ![id].lastFail = "none"])
NoteFail(s, id, class) == Noted(s, [s.hist EXCEPT ![id].lastFail = class])
NoteEnqueued(s, id, request) == Noted(s, [s.hist EXCEPT ![id].enqueued = request])
\* the completeItem calls made for an item, counted up to 2
NoteCompletion(s, id) == Noted(s, [s.hist EXCEPT ![id].completions = Min(@ + 1, 2)])
\* the images addInterimImage was called with for an item since its last
\* startProcessing: the last two of them, in the order of the calls
NoteStart(s, id) == Noted(s, [s.hist EXCEPT ![id].received = <<>>])
NoteInterim(s, id, image) ==
    Noted(s, [s.hist EXCEPT ![id].received =
                 SubSeq(Append(@, image), Max(Len(@), 1), Len(@) + 1)])
NoteCall(s, id, callback) == Noted(s, [s.hist EXCEPT ![id].log = Append(@, callback)])

\* Array.prototype.map over the items
MapItems(its, f(_)) == [i \in DOMAIN its |-> f(its[i])]

\* Array.prototype.filter over the items
FilterItems(its, keep(_)) == SelectSeq(its, keep)

\* Array.prototype.find: the first element that satisfies test, as a sequence
\* of length 0 (undefined) or 1
FindItem(its, test(_)) ==
    LET found == SelectSeq(its, test)
    IN  IF found = <<>> THEN <<>> ELSE <<Head(found)>>

\* part_009:67-74   the record saveImages builds of images[i] (createdAt is
\* read by nothing)
StoredImage(queueItemId, type, i, data) ==
    [id |-> <<queueItemId, type, i>>, queueItemId |-> queueItemId, type |-> type,
     index |-> i, data |-> data]

\* a put that adds the record and keeps the one of the same key
put_Add(store, record) == store \cup {record}

\* part_009:75   IDBObjectStore.put: the record takes the place of the record
\* of the same key
put(store, record) == {r \in store : r.id # record.id} \cup {record}

\* part_009:66-76   the loop of saveImages over the indices of images
RECURSIVE PutImages(_, _, _, _, _)
PutImages(store, queueItemId, type, images, i) ==
    IF i >= Len(images) THEN store
    ELSE PutImages(put(store, StoredImage(queueItemId, type, i, images[i + 1])),
                   queueItemId, type, images, i + 1)

\* a catch block that throws what it caught on to the caller
catchStorage_Rethrow(s) == [s EXCEPT !.blob.escaped = TRUE]

\* part_009:84-86, 116-119, 164-166   the catch blocks of imageStorage: the
\* error goes to the console
catchStorage(s) == s

\* part_009:55-87   saveImages: the records of the indices given are put in
\* one transaction (the writes of the calls settle in the order of the
\* calls); a transaction that fails writes nothing
saveImages(s, id, type, images) ==
    IF Len(images) = 0 THEN s
    ELSE IF s.blob.fails THEN catchStorage(s)
    ELSE [s EXCEPT !.db = PutImages(@, id, type, images, 0)]

\* part_009:109-112   records.sort((a, b) => a.index - b.index)
RECURSIVE SortByIndex(_)
SortByIndex(records) ==
    IF records = {} THEN <<>>
    ELSE LET first == CHOOSE r \in records : \A q \in records : r.index <= q.index
         IN  <<first>> \o SortByIndex(records \ {first})

\* part_009:93-120   loadImages: [] when the call fails
loadImages(s, id, type) ==
    IF s.blob.fails THEN <<>>
    ELSE LET filtered == SortByIndex({r \in s.db : r.queueItemId = id /\ r.type = type})
         IN  [i \in 1..Len(filtered) |-> filtered[i].data]

\* part_009:125-137
loadAllImages(s, id) ==
    [referenceImages |-> loadImages(s, id, "reference"),
     interimImages |-> loadImages(s, id, "interim"),
     finalImages |-> loadImages(s, id, "final")]

\* part_009:142-167
deleteImages(s, id) ==
    IF s.blob.fails THEN catchStorage(s)
    ELSE [s EXCEPT !.db = {r \in @ : r.queueItemId # id}]

\* queueStore.ts:104, 111   forEach((item) => deleteImages(item.id))
RECURSIVE DeleteEach(_, _)
DeleteEach(s, its) ==
    IF its = <<>> THEN s ELSE DeleteEach(deleteImages(s, Head(its).id), Tail(its))

\* part_002:43-51, queueStore.ts:121-131   what is enqueued: itemData
ItemData(provider, itemModel, referenceImages) ==
    [prompt |-> "prompt", referenceImages |-> referenceImages,
     resolution |-> DEFAULT_RESOLUTION, aspectRatio |-> DEFAULT_ASPECT_RATIO,
     model |-> itemModel, provider |-> provider]

\* part_002:95-100   the request processQueue and the adapters build of an item
RequestOf(item) ==
    [prompt |-> item.prompt, referenceImages |-> item.referenceImages,
     resolution |-> item.resolution, aspectRatio |-> item.aspectRatio]

\* queueStore.ts:68-73   the item addItem creates
NewItem(id, itemData) ==
    [id |-> id, provider |-> itemData.provider, model |-> itemData.model, status |-> "pending", error |-> "",
     prompt |-> itemData.prompt, referenceImages |-> itemData.referenceImages,
     resolution |-> itemData.resolution, aspectRatio |-> itemData.aspectRatio,
     progress |-> NoProgress, statusMessage |-> "",
     \* startedAt: whether it is set; elapsedTime: "" (undefined), "tick" (a
     \* time updateElapsedTime measured) or "final" (the time onFinalImage
     \* measured)
     startedAt |-> FALSE, elapsedTime |-> "",
     thoughtTexts |-> <<>>, interimImages |-> <<>>, finalImage |-> ""]

\* addItem with the new item put first
addItem_Prepend(s, id, itemData) ==
    saveImages([s EXCEPT !.items = <<NewItem(id, itemData)>> \o s.items],
               id, "reference", itemData.referenceImages)

\* queueStore.ts:67-85   addItem: the new item goes to the end of the array
addItem(s, id, itemData) ==
    saveImages([s EXCEPT !.items = Append(s.items, NewItem(id, itemData))],
               id, "reference", itemData.referenceImages)

\* queueStore.ts:87-94
removeItem(s, id) ==
    LET keep(item) == item.id # id
    IN  deleteImages(Noted([s EXCEPT !.items = FilterItems(s.items, keep),
                                     !.currentItemId = IF s.currentItemId = id
                                                       THEN NoItem
                                                       ELSE s.currentItemId],
                           s.hist), id)

\* a clearCompleted that empties the current-item slot as clearAll does
clearCompleted_ResetsCurrent(s) ==
    LET keep(item) == item.status # "completed" /\ item.status # "error"
        drop(item) == item.status = "completed" \/ item.status = "error"
    IN  DeleteEach(Noted([s EXCEPT !.items = FilterItems(s.items, keep),
                                   !.currentItemId = NoItem], s.hist),
                   FilterItems(s.items, drop))

\* queueStore.ts:96-105
clearCompleted(s) ==
    LET keep(item) == item.status # "completed" /\ item.status # "error"
        drop(item) == item.status = "completed" \/ item.status = "error"
    IN  DeleteEach(Noted([s EXCEPT !.items = FilterItems(s.items, keep)], s.hist),
                   FilterItems(s.items, drop))

\* queueStore.ts:107-112
clearAll(s) ==
    DeleteEach(Noted([s EXCEPT !.items = <<>>, !.currentItemId = NoItem], s.hist),
               s.items)

\* queueStore.ts:134-151
startProcessing(s, id) ==
    LET start(item) == IF item.id = id
                       THEN [item EXCEPT !.status = "generating", !.progress = 0,
                                         !.statusMessage = "preparing",
                                         !.startedAt = TRUE,
                                         !.thoughtTexts = <<>>,
                                         !.interimImages = <<>>]
                       ELSE item
    IN  NoteStart([s EXCEPT !.currentItemId = id, !.items = MapItems(s.items, start)],
                  id)

\* an updateProgress that does not look at the id of the items
updateProgress_All(s, id, progress) ==
    LET update(item) == [item EXCEPT !.progress = progress]
    IN  [s EXCEPT !.items = MapItems(s.items, update)]

\* queueStore.ts:153-159
updateProgress(s, id, progress) ==
    LET update(item) == IF item.id = id THEN [item EXCEPT !.progress = progress]
                        ELSE item
    IN  [s EXCEPT !.items = MapItems(s.items, update)]

\* queueStore.ts:161-167
setStatusMessage(s, id, message) ==
    LET update(item) == IF item.id = id THEN [item EXCEPT !.statusMessage = message]
                        ELSE item
    IN  [s EXCEPT !.items = MapItems(s.items, update)]

\* queueStore.ts:179-187
addThoughtText(s, id, text) ==
    LET add(item) == IF item.id = id
                     THEN [item EXCEPT !.thoughtTexts = Append(@, text)]
                     ELSE item
    IN  [s EXCEPT !.items = MapItems(s.items, add)]

\* Array.prototype.slice(-2)
LastTwo(images) == SubSeq(images, IF Len(images) > 2 THEN Len(images) - 1 ELSE 1,
                          Len(images))

\* queueStore.ts:189-201
addInterimImage(s, id, image) ==
    LET test(item) == item.id = id
        found == FindItem(s.items, test)
        interimImages == LastTwo(Append(IF found = <<>> THEN <<>>
                                        ELSE found[1].interimImages, image))
        add(item) == IF item.id = id THEN [item EXCEPT !.interimImages = interimImages]
                     ELSE item
    IN  saveImages(NoteInterim([s EXCEPT !.items = MapItems(s.items, add)], id, image),
                   id, "interim", interimImages)

\* queueStore.ts:169-177
updateElapsedTime(s, id) ==
    LET update(item) == IF item.id = id /\ item.startedAt
                        THEN [item EXCEPT !.elapsedTime = "tick"]
                        ELSE item
    IN  [s EXCEPT !.items = MapItems(s.items, update)]

\* queueStore.ts:203-214
completeItem(s, id, finalImage) ==
    LET complete(item) == IF item.id = id
                          THEN [item EXCEPT !.status = "completed",
                                            !.finalImage = finalImage,
                                            !.elapsedTime = "final"]
                          ELSE item
    IN  saveImages(NoteCompletion([s EXCEPT !.currentItemId = NoItem,
                                            !.items = MapItems(s.items, complete)], id),
                   id, "final", <<finalImage>>)

\* a failItem that leaves the current-item slot as it is
failItem_KeepsCurrent(s, id, error) ==
    LET fail(item) == IF item.id = id
                      THEN [item EXCEPT !.status = "error", !.error = error]
                      ELSE item
    IN  [s EXCEPT !.items = MapItems(s.items, fail)]

\* queueStore.ts:216-225
failItem(s, id, error) ==
    LET fail(item) == IF item.id = id
                      THEN [item EXCEPT !.status = "error", !.error = error]
                      ELSE item
    IN  [s EXCEPT !.currentItemId = NoItem, !.items = MapItems(s.items, fail)]

\* queueStore.ts:227-229
getNextPending(s) ==
    LET pending(item) == item.status = "pending"
    IN  FindItem(s.items, pending)

\* queueStore.ts:231-234
getCurrentItem(s) ==
    LET current(item) == item.id = s.currentItemId
    IN  FindItem(s.items, current)

\* a getCurrentApiKey that reads the Google credential whatever the current
\* provider is
getCurrentApiKey_Google == apiKeys["google"]

\* settingsStore.ts:93-96
getCurrentApiKey == apiKeys[currentProvider]

(***************************************************************************)
(* The callbacks processQueue hands to the adapter (part_002:101-158).     *)
(***************************************************************************)
\* the final image a back end sends
FinalImage == "final"

\* part_002:102-105 (the texts of the messages are Korean; they are kept by kind)
onProgress(s, id, progress, message) ==
    setStatusMessage(updateProgress(s, id, progress), id, message)

\* part_002:106-109
onThoughtText(s, id, text) == addThoughtText(s, id, text)

\* part_002:110-113
onInterimImage(s, id, image) == addInterimImage(s, id, image)

\* onFinalImage doing the cleanup of onComplete as well
onFinalImage_Cleanup(s, id) ==
    [completeItem(s, id, FinalImage) EXCEPT !.timerRef = NoItem,
                                            !.isProcessingRef = FALSE]

\* part_002:114-139
onFinalImage(s, id) == completeItem(s, id, FinalImage)

\* part_002:140-148
onError(s, id, error) == NoteCall(failItem(s, id, error), id, "onError")

\* an onComplete that marks the item completed
onComplete_Completes(s, id) ==
    NoteCall(completeItem([s EXCEPT !.timerRef = NoItem, !.isProcessingRef = FALSE],
                          id, FinalImage),
             id, "onComplete")

\* part_002:149-157 (id is the item of the invocation, for the history)
onComplete(s, id) ==
    NoteCall([s EXCEPT !.timers = IF s.timerRef # NoItem THEN s.timers \ {s.timerRef}
                                  ELSE s.timers,
                       !.timerRef = NoItem,
                       !.isProcessingRef = FALSE],
             id, "onComplete")

(***************************************************************************)
(* Errors and their classification.                                        *)
(***************************************************************************)
\* the HTTP error statuses the back end answers with
ErrorStatuses == {400, 429, 500}

\* the error argument null, and the exceptions fetch and reader.read() raise
NoError == [name |-> "null", message |-> ""]
Exceptions ==
    { [name |-> "TypeError",  message |-> "Failed to fetch"],
      [name |-> "RangeError", message |-> "Invalid string length"] }

\* String.prototype.toLowerCase on the messages above
ToLowerCase(message) ==
    CASE message = "Failed to fetch" -> "failed to fetch"
      [] message = "Invalid string length" -> "invalid string length"
      [] OTHER -> message

\* String.prototype.includes, for the needles isRetryableError looks for
Includes(message, needle) ==
    CASE message \in {"Failed to fetch", "failed to fetch"} ->
              needle \in {"fetch", "failed to fetch"}
      [] OTHER -> FALSE

\* a classifier for which every error is retryable
isRetryableError_Always(error, statusCode) == TRUE

\* part_012:12-25 (and nanoBanana.ts:18-41); statusCode 0 is undefined
isRetryableError(error, statusCode) ==
    IF statusCode # 0 /\ statusCode >= 500 THEN TRUE
    ELSE IF statusCode = 429 THEN TRUE
    ELSE IF error.name = "TypeError" /\ Includes(error.message, "fetch") THEN TRUE
    ELSE IF error.name = "AbortError" THEN TRUE
    ELSE IF error # NoError
            /\ \E needle \in {"network", "timeout", "failed to fetch", "server",
                              "502", "503", "504"} :
                   Includes(ToLowerCase(error.message), needle)
         THEN TRUE
    ELSE FALSE

\* errorData.error?.message || `API error: ${response.status}`: the message the
\* provider gives for the status
ApiErrorMessage(status) ==
    CASE status = 400 -> "API error: 400"
      [] status = 429 -> "API error: 429"
      [] status = 500 -> "API error: 500"

\* part_012:114   `http_${response.status}`
HttpErrorType(status) ==
    CASE status = 400 -> "http_400"
      [] status = 429 -> "http_429"
      [] status = 500 -> "http_500"

\* part_012:277 (the text of the code is Korean)
MaxRetriesMessage == "Max retries (100) exceeded. Try again later."

\* history: the class of a failed attempt in the taxonomy of the retry policy
\* (retryable: HTTP >= 500, HTTP 429, a network failure, no artifact)
ClassOfStatus(status) == IF status >= 500 \/ status = 429 THEN "retryable" ELSE "fatal"
ClassOfException(error) ==
    IF error.name = "TypeError" /\ error.message = "Failed to fetch"
    THEN "retryable" ELSE "fatal"

\* the variables an action of the queue leaves alone besides those of Commit
others == <<nextId, apiKeys, currentProvider, model, failCap, loads, files, legacy, fn,
           parser>>

(***************************************************************************)
(* User operations on the queue and the settings.                          *)
(***************************************************************************)
\* part_002:36-55   handleSubmit.  The provider of the new item is the one the
\* credential was read for; the await of fileToBase64 between the two is taken
\* in the same step.
HandleSubmit ==
    /\ getCurrentApiKey # ""
    /\ nextId <= MaxItems
    /\ \E referenceImages \in files :
          LET itemData == ItemData(currentProvider, model, referenceImages)
          IN  Commit(NoteEnqueued(addItem(Cur, nextId, itemData), nextId,
                                  RequestOf(itemData)))
    /\ nextId' = nextId + 1
    /\ UNCHANGED <<settingsVars, calls, failCap, loads, files, legacy, fn, parser>>

\* queueStore.ts:87-94, from the remove button of an item's row
RemoveItem(id) ==
    /\ InQueue(items, id)
    /\ Commit(removeItem(Cur, id))
    /\ UNCHANGED <<others, calls>>

\* queueStore.ts:96-105
ClearCompleted ==
    /\ \E i \in DOMAIN items : items[i].status \in {"completed", "error"}
    /\ Commit(clearCompleted(Cur))
    /\ UNCHANGED <<others, calls>>

\* queueStore.ts:107-112
ClearAll ==
    /\ items # <<>>
    /\ Commit(clearAll(Cur))
    /\ UNCHANGED <<others, calls>>

\* queueStore.ts:114-132   rerunItem.  The fields of the item that are copied
\* never change, so the read of the item and the addItem after the await of
\* loadImages are taken as one step.
RerunItem(id) ==
    /\ nextId <= MaxItems
    /\ \E i \in DOMAIN items :
          /\ items[i].id = id
          /\ LET referenceImages == IF items[i].referenceImages = <<>>
                                    THEN loadImages(Cur, id, "reference")
                                    ELSE items[i].referenceImages
                 itemData == [ItemData(items[i].provider, items[i].model, referenceImages)
                                  EXCEPT !.prompt = items[i].prompt,
                                         !.resolution = items[i].resolution,
                                         !.aspectRatio = items[i].aspectRatio]
             IN  Commit(NoteEnqueued(addItem(Cur, nextId, itemData), nextId,
                                     RequestOf(itemData)))
    /\ nextId' = nextId + 1
    /\ UNCHANGED <<settingsVars, calls, failCap, loads, files, legacy, fn, parser>>

\* settingsStore.ts:59-63
SetApiKey(provider, key) ==
    /\ apiKeys[provider] # key
    /\ apiKeys' = [apiKeys EXCEPT ![provider] = key]
    /\ UNCHANGED <<queueVars, appVars, currentProvider, model, calls, hist, failCap,
                   loads, files, legacy, fn, parser>>

\* settingsStore.ts:65-86
SetCurrentProvider(provider) ==
    /\ currentProvider # provider
    /\ currentProvider' = provider
    /\ model' = PROVIDER_DEFAULT_MODEL[provider]
    /\ UNCHANGED <<queueVars, appVars, apiKeys, calls, hist, failCap, loads, files, legacy,
                   fn, parser>>

\* settingsStore.ts:90, from the model list of the settings panel
\* (SettingsPanel.tsx:132), which offers the models of the current provider
SetModel(newModel) ==
    /\ newModel \in PROVIDER_MODELS[currentProvider]
    /\ model # newModel
    /\ model' = newModel
    /\ UNCHANGED <<queueVars, appVars, apiKeys, currentProvider, calls, hist, failCap,
                   loads, files, legacy, fn, parser>>

\* onRehydrateStorage leaving the items as they were persisted
rehydrate_NoDemote(its) == its

\* queueStore.ts:277-287   onRehydrateStorage
rehydrate(its) ==
    LET demote(item) == IF item.status = "generating"
                        THEN [item EXCEPT !.status = "pending",
                                          !.progress = NoProgress,
                                          !.statusMessage = "",
                                          !.startedAt = FALSE]
                        ELSE item
    IN  MapItems(its, demote)

\* queueStore.ts:264-276   partialize: what of the items is persisted
partialize(its) ==
    LET persisted(item) == [item EXCEPT !.referenceImages = <<>>,
                                        !.finalImage = "",
                                        !.interimImages = <<>>,
                                        !.thoughtTexts = <<>>]
    IN  MapItems(its, persisted)

\* a restart that persists the current-item slot
Restart_KeepsCurrent ==
    /\ items # <<>>
    /\ items' = rehydrate(partialize(items))
    /\ db' = db
    /\ blob' = blob
    /\ loads' = {}
    /\ currentItemId' = currentItemId
    /\ isProcessingRef' = FALSE
    /\ timerRef' = NoItem
    /\ timers' = {}
    /\ calls' = {}
    /\ hist' = [id \in ItemIds |->
                   IF \E i \in DOMAIN items :
                          items[i].id = id /\ items[i].status = "generating"
                   THEN [NoHistory EXCEPT !.enqueued = hist[id].enqueued]
                   ELSE hist[id]]
    /\ UNCHANGED <<nextId, apiKeys, currentProvider, model, failCap, files, legacy, fn,
                   parser>>

Restart ==
    /\ items # <<>>
    /\ items' = rehydrate(partialize(items))
    /\ db' = db
    /\ blob' = blob
    /\ loads' = {}
    /\ currentItemId' = NoItem
    /\ isProcessingRef' = FALSE
    /\ timerRef' = NoItem
    /\ timers' = {}
    /\ calls' = {}
    /\ hist' = [id \in ItemIds |->
                   IF \E i \in DOMAIN items :
                          items[i].id = id /\ items[i].status = "generating"
                   THEN [NoHistory EXCEPT !.enqueued = hist[id].enqueued]
                   ELSE hist[id]]
    /\ UNCHANGED <<nextId, apiKeys, currentProvider, model, failCap, files, legacy, fn,
                   parser>>

(***************************************************************************)
(* processQueue (part_002:58-100) up to its first await: the pick of the   *)
(* next item and the synchronous start of the adapter, which issues the    *)
(* first fetch.                                                            *)
(***************************************************************************)
\* the state of an adapter invocation at its first await
StartCall(item, apiKey) ==
    [item |-> item.id, provider |-> item.provider, pc |-> "fetch", attempt |-> 1,
     \* part_002:87-91   the config the adapter is called with
     config |-> [provider |-> item.provider, model |-> item.model, apiKey |-> apiKey],
     consecutiveSameErrors |-> 0, lastErrorType |-> "", hasFinalImage |-> FALSE,
     retryInterval |-> Ms(0), request |-> RequestOf(item),
     thoughtCount |-> 0, interimCount |-> 0,
     \* history of the invocation: the tag of its last failed attempt, how many
     \* attempts in a row have failed with that tag, and whether the request
     \* of the attempt it is in was answered with an HTTP success
     lastTag |-> "", tagStreak |-> 0, accepted |-> FALSE]

\* part_012:99, openai.ts:17, part_010:276   the progress an adapter reports
\* before its first await
StartProgress(provider) == IF provider = "google" THEN 5 ELSE 10
StartMessage(provider) == IF provider = "google" THEN "connecting" ELSE "requesting"

\* part_002:59   if (isProcessingRef.current) return
processQueueBusy == isProcessingRef

\* part_014:5-17   the adapter registered for a provider tag; <<>> where
\* providers[provider] is undefined
getImageProvider(provider) == IF provider \in PROVIDERS THEN <<provider>> ELSE <<>>

\* part_014:14   the message of the Error getImageProvider throws
UnknownProviderMessage(provider) == "Unknown provider: " \o provider

\* a catch block that leaves isProcessingRef.current set
processQueueCatch_KeepsSlot(s, id, errorMessage) ==
    LET failed == failItem(s, id, errorMessage)
    IN  [failed EXCEPT !.timers = IF s.timerRef = NoItem THEN @ ELSE @ \ {s.timerRef},
                       !.timerRef = NoItem]

\* part_002:160-174   the catch block of processQueue
processQueueCatch(s, id, errorMessage) ==
    LET failed == failItem(s, id, errorMessage)
    IN  [failed EXCEPT !.timers = IF s.timerRef = NoItem THEN @ ELSE @ \ {s.timerRef},
                       !.timerRef = NoItem,
                       !.isProcessingRef = FALSE]

\* part_002:58-100, 160-174
processQueue ==
    /\ ~processQueueBusy
    /\ getNextPending(Cur) # <<>>
    /\ getCurrentApiKey # ""
    /\ LET nextItem == Head(getNextPending(Cur))
           apiKey == getCurrentApiKey
           s1 == startProcessing([Cur EXCEPT !.isProcessingRef = TRUE], nextItem.id)
           s2 == [setStatusMessage(s1, nextItem.id, "preparing")
                      EXCEPT !.timerRef = nextItem.id,
                             !.timers = @ \cup {nextItem.id}]
           s3 == onProgress(s2, nextItem.id, StartProgress(nextItem.provider),
                            StartMessage(nextItem.provider))
       IN  IF getImageProvider(nextItem.provider) = <<>>
           THEN \* getImageProvider throws before anything is awaited
                /\ Commit(processQueueCatch(s2, nextItem.id,
                                            UnknownProviderMessage(nextItem.provider)))
                /\ calls' = calls
           ELSE /\ Commit(NoteFetch(s3, nextItem.id))
                /\ calls' = calls \cup {StartCall(nextItem, apiKey)}
    /\ UNCHANGED others

\* part_002:80-83   one tick of the interval that processQueue set for id
Tick(id) ==
    /\ id \in timers
    /\ Commit(updateElapsedTime(Cur, id))
    /\ UNCHANGED <<others, calls>>

\* part_002:190-196   the effect that watches the items
Wake ==
    /\ getCurrentItem(Cur) = <<>>
    /\ ~isProcessingRef
    /\ processQueue

(***************************************************************************)
(* The Google adapter, GoogleNanoBananaProvider.generateImageStream        *)
(* (part_012:51-283).  A call c is at "fetch" (await fetch), at "stream"   *)
(* (await reader.read()) or at "sleep" (await sleep(retryInterval)).       *)
(***************************************************************************)
\* part_012:119-124, 147-152, 228-233, 256-261
Track(c, errorType) ==
    IF errorType = c.lastErrorType
    THEN [c EXCEPT !.consecutiveSameErrors = @ + 1]
    ELSE [c EXCEPT !.consecutiveSameErrors = 1, !.lastErrorType = errorType]

\* history: an attempt of c has failed with the tag errorType (the attempts
\* in a row are counted up to one past the threshold of the backoff)
NoteTag(c, errorType) ==
    [c EXCEPT !.tagStreak = IF errorType # c.lastTag THEN 1
                            ELSE IF @ > BACKOFF_THRESHOLD THEN @ ELSE @ + 1,
              !.lastTag = errorType]

\* history: the request of the attempt was answered with an HTTP success
NoteAccepted(c) == [c EXCEPT !.accepted = TRUE]

\* part_012:126-130, 154-158, 235-239, 263-267
RetryLater(c, errorType) ==
    LET tracked == Track(c, errorType)
    IN  NoteTag([tracked EXCEPT
                    !.retryInterval = getRetryInterval(tracked.consecutiveSameErrors),
                    !.pc = "sleep"], errorType)

\* the tracking without the reset of part_012:137-139
ResetTracking_Keep(c) == c

\* part_012:137-139
ResetTracking(c) == [c EXCEPT !.consecutiveSameErrors = 0, !.lastErrorType = ""]

\* the invocations that work on the item id
CallsOf(id) == {c \in calls : c.item = id}

\* the call c goes on as c2 / the call c has returned
Goes(c, c2) == calls' = (calls \ {c}) \cup {c2}
Returns(c) == calls' = calls \ {c}

\* part_012:111-135   the fetch answers with an error status
GoogleHttpError(id, status) ==
    \E c \in CallsOf(id) :
        /\ c.provider = "google" /\ c.pc = "fetch"
        /\ LET s == NoteFail(Cur, c.item, ClassOfStatus(status))
           IN  IF isRetryableError(NoError, status)
               THEN /\ c.attempt <= failCap
                    /\ Commit(onProgress(s, c.item, 5, "server_error_wait"))
                    /\ Goes(c, RetryLater(c, HttpErrorType(status)))
               ELSE /\ Commit(onComplete(onError(s, c.item, ApiErrorMessage(status)), c.item))
                    /\ Returns(c)
        /\ UNCHANGED others

\* part_012:137-159   the fetch answers ok, without a body
GoogleNoBody(id) ==
    \E c \in CallsOf(id) :
        /\ c.provider = "google" /\ c.pc = "fetch"
        /\ c.attempt <= failCap
        /\ Commit(onProgress(NoteFail(Cur, c.item, "retryable"), c.item, 5,
                             "no_body_wait"))
        /\ Goes(c, RetryLater(NoteAccepted(ResetTracking(c)), "no_body"))
        /\ UNCHANGED others

\* part_012:137-169   the fetch answers ok, the stream is connected
GoogleConnected(id) ==
    \E c \in CallsOf(id) :
        /\ c.provider = "google" /\ c.pc = "fetch"
        /\ Commit(onProgress(Cur, c.item, 10, "connected"))
        /\ Goes(c, [NoteAccepted(ResetTracking(c)) EXCEPT
                        !.pc = "stream", !.hasFinalImage = FALSE,
                        !.thoughtCount = 0, !.interimCount = 0])
        /\ UNCHANGED others

\* part_012:193-199   a chunk carries a thought part with text
GoogleThoughtText(id, text) ==
    \E c \in CallsOf(id) :
        /\ c.provider = "google" /\ c.pc = "stream"
        /\ c.thoughtCount < MaxThoughts
        /\ LET thoughtCount == c.thoughtCount + 1
           IN  /\ Commit(onThoughtText(onProgress(Cur, c.item,
                                                  Min(20 + thoughtCount * 2, 45),
                                                  "thinking"), c.item, text))
               /\ Goes(c, [c EXCEPT !.thoughtCount = thoughtCount])
        /\ UNCHANGED others

\* part_012:200-206   a chunk carries a thought part with inline data
GoogleInterimImage(id, image) ==
    \E c \in CallsOf(id) :
        /\ c.provider = "google" /\ c.pc = "stream"
        /\ c.interimCount < MaxInterims
        /\ LET interimCount == c.interimCount + 1
           IN  /\ Commit(onInterimImage(onProgress(Cur, c.item,
                                                   Min(50 + interimCount * 10, 65),
                                                   "interim"), c.item, image))
               /\ Goes(c, [c EXCEPT !.interimCount = interimCount])
        /\ UNCHANGED others

\* part_012:207-214   a chunk carries a final-image part
GoogleFinalImage(id) ==
    \E c \in CallsOf(id) :
        /\ c.provider = "google" /\ c.pc = "stream"
        /\ Commit(onFinalImage(onProgress(Cur, c.item, 90, "finalizing"), c.item))
        /\ Goes(c, [c EXCEPT !.hasFinalImage = TRUE])
        /\ UNCHANGED others

\* part_012:171-173, 223-247   the stream ends
GoogleStreamEnd(id) ==
    \E c \in CallsOf(id) :
        /\ c.provider = "google" /\ c.pc = "stream"
        /\ IF ~c.hasFinalImage
           THEN /\ c.attempt <= failCap
                /\ Commit(onProgress(NoteFail(Cur, c.item, "retryable"), c.item, 5,
                                     "no_image_wait"))
                /\ Goes(c, RetryLater(c, "no_image"))
           ELSE /\ Commit(onComplete(onProgress(Cur, c.item, 100, "done"), c.item))
                /\ Returns(c)
        /\ UNCHANGED others

\* part_012:249-272   fetch or reader.read() throws
GoogleThrow(id, error) ==
    \E c \in CallsOf(id) :
        /\ c.provider = "google" /\ c.pc \in {"fetch", "stream"}
        /\ LET s == NoteFail(Cur, c.item, ClassOfException(error))
           IN  IF isRetryableError(error, 0)
               THEN /\ c.attempt <= failCap
                    /\ Commit(onProgress(s, c.item, 5, "network_wait"))
                    /\ Goes(c, RetryLater(c, "network"))
               ELSE /\ Commit(onComplete(onError(s, c.item, error.message), c.item))
                    /\ Returns(c)
        /\ UNCHANGED others

\* the end of the loop without the onError of part_012:275-277
GoogleSleepDone_Silent(id) ==
    \E c \in CallsOf(id) :
        /\ c.provider = "google" /\ c.pc = "sleep"
        /\ IF c.attempt < MAX_RETRIES
           THEN /\ Commit(NoteFetch(onProgress(Cur, c.item, 5, "retrying"), c.item))
                /\ Goes(c, [c EXCEPT !.attempt = @ + 1, !.pc = "fetch",
                                     !.accepted = FALSE])
           ELSE /\ Commit(onComplete(Cur, c.item))
                /\ Returns(c)
        /\ UNCHANGED others

\* part_012:90-109, 273-283   the sleep is over: the next attempt, or the end
\* of the loop
GoogleSleepDone(id) ==
    \E c \in CallsOf(id) :
        /\ c.provider = "google" /\ c.pc = "sleep"
        /\ IF c.attempt < MAX_RETRIES
           THEN /\ Commit(NoteFetch(onProgress(Cur, c.item, 5, "retrying"), c.item))
                /\ Goes(c, [c EXCEPT !.attempt = @ + 1, !.pc = "fetch",
                                     !.accepted = FALSE])
           ELSE /\ Commit(onComplete(onError(Cur, c.item, MaxRetriesMessage), c.item))
                /\ Returns(c)
        /\ UNCHANGED others

(***************************************************************************)
(* The OpenAI adapter, OpenAIImagesProvider.generateImageStream            *)
(* (openai.ts:9-119).  A call is at "fetch" (await fetch) or at "json"     *)
(* (await response.json(), and await urlToBase64 when the answer is a URL).*)
(***************************************************************************)
\* openai.ts:81-88
OpenAIHttpError(id, status) ==
    \E c \in CallsOf(id) :
        /\ c.provider = "openai" /\ c.pc = "fetch"
        /\ Commit(onComplete(onError(NoteFail(Cur, c.item, ClassOfStatus(status)),
                                     c.item, ApiErrorMessage(status)), c.item))
        /\ Returns(c)
        /\ UNCHANGED others

\* openai.ts:90-92
OpenAIResponse(id) ==
    \E c \in CallsOf(id) :
        /\ c.provider = "openai" /\ c.pc = "fetch"
        /\ Commit(onProgress(Cur, c.item, 80, "receiving"))
        /\ Goes(c, [c EXCEPT !.pc = "json"])
        /\ UNCHANGED others

\* openai.ts:94-108
OpenAIImage(id) ==
    \E c \in CallsOf(id) :
        /\ c.provider = "openai" /\ c.pc = "json"
        /\ Commit(onComplete(onProgress(onFinalImage(Cur, c.item), c.item, 100,
                                        "done"), c.item))
        /\ Returns(c)
        /\ UNCHANGED others

\* openai.ts:109-113
OpenAINoImage(id) ==
    \E c \in CallsOf(id) :
        /\ c.provider = "openai" /\ c.pc = "json"
        /\ Commit(onComplete(onError(NoteFail(Cur, c.item, "retryable"),
                                     c.item, "No image was generated"), c.item))
        /\ Returns(c)
        /\ UNCHANGED others

\* openai.ts:114-118
OpenAIThrow(id, error) ==
    \E c \in CallsOf(id) :
        /\ c.provider = "openai" /\ c.pc \in {"fetch", "json"}
        /\ Commit(onComplete(onError(NoteFail(Cur, c.item, ClassOfException(error)),
                                     c.item, error.message), c.item))
        /\ Returns(c)
        /\ UNCHANGED others

(***************************************************************************)
(* The BytePlus adapter, BytePlusSeedreamProvider.generateImageStream      *)
(* (part_010:268-345), with the same two awaits.                           *)
(***************************************************************************)
\* part_010:306-312
BytePlusHttpError(id, status) ==
    \E c \in CallsOf(id) :
        /\ c.provider = "byteplus" /\ c.pc = "fetch"
        /\ Commit(onError(NoteFail(Cur, c.item, ClassOfStatus(status)),
                          c.item, ApiErrorMessage(status)))
        /\ Returns(c)
        /\ UNCHANGED others

\* part_010:314-316
BytePlusResponse(id) ==
    \E c \in CallsOf(id) :
        /\ c.provider = "byteplus" /\ c.pc = "fetch"
        /\ Commit(onProgress(Cur, c.item, 80, "receiving"))
        /\ Goes(c, [c EXCEPT !.pc = "json"])
        /\ UNCHANGED others

\* part_010:318-326, 333-336
BytePlusImage(id) ==
    \E c \in CallsOf(id) :
        /\ c.provider = "byteplus" /\ c.pc = "json"
        /\ Commit(onComplete(onFinalImage(onProgress(Cur, c.item, 100, "done"),
                                          c.item), c.item))
        /\ Returns(c)
        /\ UNCHANGED others

\* part_010:327-331, 337-340
BytePlusNoImage(id, message) ==
    \E c \in CallsOf(id) :
        /\ c.provider = "byteplus" /\ c.pc = "json"
        /\ Commit(onError(NoteFail(Cur, c.item, "retryable"), c.item, message))
        /\ Returns(c)
        /\ UNCHANGED others

\* part_010:341-344
BytePlusThrow(id, error) ==
    \E c \in CallsOf(id) :
        /\ c.provider = "byteplus" /\ c.pc \in {"fetch", "json"}
        /\ Commit(onError(NoteFail(Cur, c.item, ClassOfException(error)),
                          c.item, error.message))
        /\ Returns(c)
        /\ UNCHANGED others

(***************************************************************************)
(* The legacy adapter, generateImageStream of nanoBanana.ts:48-242, with   *)
(* the bounded retry policy.  legacy is one invocation of it: its place,   *)
(* its locals, and what its caller has seen of it (the fetches issued, the *)
(* messages given to onError, the onComplete calls, whether a final image  *)
(* was delivered, and whether every answer so far was a 429).              *)
(***************************************************************************)
\* nanoBanana.ts:241
LegacyMaxRetriesMessage == "Maximum retries (30) reached. Please try again later."

LegacyOnError(l, message) == [l EXCEPT !.errors = Append(@, message), !.pc = "returned"]
LegacySleep(l) == [l EXCEPT !.pc = "sleep"]

\* nanoBanana.ts:48-91   the call, up to the first await fetch
LegacyStart ==
    /\ legacy.pc = "none"
    /\ legacy' = [pc |-> "fetch", attempt |-> 1, hasFinalImage |-> FALSE,
                  fetches |-> 1, only429 |-> TRUE, errors |-> <<>>,
                  completes |-> 0, finals |-> FALSE]
    /\ UNCHANGED <<queueVars, appVars, settingsVars, calls, hist, failCap, loads, files, fn, parser>>

\* nanoBanana.ts:105-120
LegacyHttpError(status) ==
    /\ legacy.pc = "fetch"
    /\ LET l == [legacy EXCEPT !.only429 = @ /\ status = 429]
       IN  legacy' = IF isRetryableError(NoError, status) /\ l.attempt < LEGACY_MAX_RETRIES
                     THEN LegacySleep(l)
                     ELSE LegacyOnError(l, ApiErrorMessage(status))
    /\ UNCHANGED <<queueVars, appVars, settingsVars, calls, hist, failCap, loads, files, fn, parser>>

\* nanoBanana.ts:122-135
LegacyNoBody ==
    /\ legacy.pc = "fetch"
    /\ LET l == [legacy EXCEPT !.only429 = FALSE]
       IN  legacy' = IF l.attempt < LEGACY_MAX_RETRIES
                     THEN LegacySleep(l)
                     ELSE LegacyOnError(l, "No response body")
    /\ UNCHANGED <<queueVars, appVars, settingsVars, calls, hist, failCap, loads, files, fn, parser>>

\* nanoBanana.ts:137-146
LegacyConnected ==
    /\ legacy.pc = "fetch"
    /\ legacy' = [legacy EXCEPT !.pc = "stream", !.hasFinalImage = FALSE,
                                !.only429 = FALSE]
    /\ UNCHANGED <<queueVars, appVars, settingsVars, calls, hist, failCap, loads, files, fn, parser>>

\* nanoBanana.ts:185-192
LegacyFinalImage ==
    /\ legacy.pc = "stream"
    /\ legacy' = [legacy EXCEPT !.hasFinalImage = TRUE, !.finals = TRUE]
    /\ UNCHANGED <<queueVars, appVars, settingsVars, calls, hist, failCap, loads, files, fn, parser>>

\* nanoBanana.ts:148-150, 202-222
LegacyStreamEnd ==
    /\ legacy.pc = "stream"
    /\ legacy' = IF ~legacy.hasFinalImage
                 THEN IF legacy.attempt < LEGACY_MAX_RETRIES
                      THEN LegacySleep(legacy)
                      ELSE LegacyOnError(legacy,
                                         "No image was generated after multiple retries")
                 ELSE [legacy EXCEPT !.completes = @ + 1, !.pc = "returned"]
    /\ UNCHANGED <<queueVars, appVars, settingsVars, calls, hist, failCap, loads, files, fn, parser>>

\* nanoBanana.ts:224-237
LegacyThrow(error) ==
    /\ legacy.pc \in {"fetch", "stream"}
    /\ LET l == [legacy EXCEPT !.only429 = FALSE]
       IN  legacy' = IF isRetryableError(error, 0) /\ l.attempt < LEGACY_MAX_RETRIES
                     THEN LegacySleep(l)
                     ELSE LegacyOnError(l, error.message)
    /\ UNCHANGED <<queueVars, appVars, settingsVars, calls, hist, failCap, loads, files, fn, parser>>

\* nanoBanana.ts:82-84, 238-242   the sleep is over
LegacySleepDone ==
    /\ legacy.pc = "sleep"
    /\ legacy' = IF legacy.attempt < LEGACY_MAX_RETRIES
                 THEN [legacy EXCEPT !.attempt = @ + 1, !.fetches = @ + 1,
                                     !.pc = "fetch"]
                 ELSE LegacyOnError(legacy, LegacyMaxRetriesMessage)
    /\ UNCHANGED <<queueVars, appVars, settingsVars, calls, hist, failCap, loads, files, fn, parser>>

(***************************************************************************)
(* getRetryInterval applied to an argument; fn keeps the application and   *)
(* the one before it.                                                      *)
(***************************************************************************)
CallGetRetryInterval(n) ==
    /\ fn' = [called |-> TRUE, n |-> n, interval |-> getRetryInterval(n),
              before |-> IF fn.called
                         THEN [n |-> fn.n, interval |-> fn.interval]
                         ELSE [n |-> n, interval |-> getRetryInterval(n)]]
    /\ UNCHANGED <<queueVars, appVars, settingsVars, calls, hist, failCap, loads, files, legacy, parser>>

(***************************************************************************)
(* The queue with its three adapters.                                      *)
(***************************************************************************)
(***************************************************************************)
(* The event parser of the streaming adapters (part_012:164-221 and, less  *)
(* the progress reports, google.ts:63-108).  A response body is a sequence *)
(* of bytes.  An ASCII byte is written as its character; C3 89 are the two *)
(* bytes of one character outside ASCII.  The JSON of an event is kept to  *)
(* what the parser reads of it: the list of the parts of the first         *)
(* candidate, written [ part ... ], one character per part.                *)
(***************************************************************************)
LF == "\n"
CR == "\r"
LeadByte == "C3"
ContinuationByte == "89"
Eacute == "U+00C9"

\* the parts of a candidate: T and the non-ASCII character are thoughts with
\* text, I is a thought with inline data, F is inline data that is no thought,
\* X is text that is no thought
PartOf(ch) ==
    [thought |-> ch \in {"T", Eacute, "I"},
     text |-> IF ch \in {"T", Eacute, "X"} THEN ch ELSE "",
     inlineData |-> IF ch \in {"I", "F"} THEN ch ELSE ""]
PartChars == {"T", Eacute, "I", "F", "X"}

\* TextDecoder.decode(value, {stream: true}): the bytes of a character that is
\* not complete at the end of value are held for the next call
RECURSIVE decode(_, _, _)
decode(held, value, text) ==
    IF value = <<>> THEN [held |-> held, text |-> text]
    ELSE IF held # <<>> THEN decode(<<>>, Tail(value), Append(text, Eacute))
    ELSE IF Head(value) = LeadByte THEN decode(<<Head(value)>>, Tail(value), text)
    ELSE decode(<<>>, Tail(value), Append(text, Head(value)))

\* String.prototype.split('\n'); line is the part of the current line read
RECURSIVE split(_, _)
split(text, line) ==
    IF text = <<>> THEN <<line>>
    ELSE IF Head(text) = LF THEN <<line>> \o split(Tail(text), <<>>)
    ELSE split(Tail(text), Append(line, Head(text)))

\* lines.pop() that leaves nothing of the unfinished line
pop_Nothing(lines) == <<>>

\* lines.pop() || '': the last element of lines, which split never leaves empty
pop(lines) == lines[Len(lines)]

\* String.prototype.startsWith
startsWith(line, prefix) ==
    Len(line) >= Len(prefix) /\ SubSeq(line, 1, Len(prefix)) = prefix

\* String.prototype.slice(start)
slice(line, start) == SubSeq(line, start + 1, Len(line))

\* String.prototype.trim
RECURSIVE trimStart(_)
trimStart(text) ==
    IF text # <<>> /\ Head(text) \in {" ", CR} THEN trimStart(Tail(text)) ELSE text
RECURSIVE trimEnd(_)
trimEnd(text) ==
    IF text # <<>> /\ text[Len(text)] \in {" ", CR}
    THEN trimEnd(SubSeq(text, 1, Len(text) - 1)) ELSE text
trim(text) == trimEnd(trimStart(text))

DataPrefix == <<"d", "a", "t", "a", ":", " ">>
DoneSentinel == <<"[", "D", "O", "N", "E", "]">>

\* JSON.parse followed by chunk.candidates?.[0]?.content?.parts || []: ok is
\* FALSE where JSON.parse throws a SyntaxError
JSONparse(data) ==
    IF /\ Len(data) >= 2 /\ data[1] = "[" /\ data[Len(data)] = "]"
       /\ \A i \in 2..(Len(data) - 1) : data[i] \in PartChars
    THEN [ok |-> TRUE, parts |-> [i \in 1..(Len(data) - 2) |-> PartOf(data[i + 1])]]
    ELSE [ok |-> FALSE, parts |-> <<>>]

Report(p, progress) == [p EXCEPT !.progress = Append(@, progress)]
Callback(p, cb, data) == [p EXCEPT !.log = Append(@, [cb |-> cb, data |-> data])]

\* part_012:192-214   one part of an event
ProcessPart(p, part) ==
    IF part.thought
    THEN LET p1 == IF part.text # ""
                   THEN LET q == [p EXCEPT !.thoughtCount = @ + 1]
                        IN  Callback(Report(q, Min(20 + q.thoughtCount * 2, 45)),
                                     "onThoughtText", part.text)
                   ELSE p
         IN  IF part.inlineData # ""
             THEN LET q == [p1 EXCEPT !.interimCount = @ + 1]
                  IN  Callback(Report(q, Min(50 + q.interimCount * 10, 65)),
                               "onInterimImage", part.inlineData)
             ELSE p1
    ELSE IF part.inlineData # ""
         THEN Callback([Report(p, 90) EXCEPT !.hasFinalImage = TRUE],
                       "onFinalImage", part.inlineData)
         ELSE p

\* a loop over the parts that is left after the first part
ProcessParts_FirstOnly(p, parts) ==
    IF parts = <<>> THEN p ELSE ProcessPart(p, Head(parts))

\* part_012:191   for (const part of chunkParts)
RECURSIVE ProcessParts(_, _)
ProcessParts(p, parts) ==
    IF parts = <<>> THEN p ELSE ProcessParts(ProcessPart(p, Head(parts)), Tail(parts))

\* a catch block that lets the exception go on
catch_Rethrow(p) == p

\* part_012:216-218   catch { }: the exception of the try block ends here
catch(p) == [p EXCEPT !.error = ""]

\* part_012:183-219   one line of the stream; error is the exception that is
\* on its way out of the statement, "" for none
ProcessLine(p, line) ==
    IF startsWith(line, DataPrefix)
    THEN LET data == trim(slice(line, 6))
         IN  IF data = DoneSentinel THEN p
             ELSE LET chunk == JSONparse(data)
                      tried == IF chunk.ok THEN ProcessParts(p, chunk.parts)
                               ELSE [p EXCEPT !.error = "SyntaxError"]
                  IN  IF tried.error # "" THEN catch(tried) ELSE tried
    ELSE p

\* part_012:182   for (const line of lines), left by an exception
RECURSIVE ProcessLines(_, _)
ProcessLines(p, lines) ==
    IF lines = <<>> \/ p.error # "" THEN p
    ELSE ProcessLines(ProcessLine(p, Head(lines)), Tail(lines))

\* part_012:175-220   the body of the read loop for one chunk (chunkCount is
\* written to the console only)
ProcessChunk(p, value) ==
    LET decoded == decode(p.decoder, value, <<>>)
        lines == split(p.buffer \o decoded.text, <<>>)
        q == [p EXCEPT !.decoder = decoded.held, !.buffer = pop(lines)]
    IN  ProcessLines(q, SubSeq(lines, 1, Len(lines) - 1))

\* part_012:164-169   the state of the loop before the first read
NewStream ==
    [decoder |-> <<>>, buffer |-> <<>>, hasFinalImage |-> FALSE,
     thoughtCount |-> 0, interimCount |-> 0, log |-> <<>>, progress |-> <<>>,
     error |-> ""]

\* the lines a back end sends, by kind
LineKinds == {"thought", "accent", "interim", "final", "several", "done",
              "cut", "comment", "blank", "crlf"}
LineOf(kind) ==
    CASE kind = "thought" -> DataPrefix \o <<"[", "T", "]">>
      [] kind = "accent"  -> DataPrefix \o <<"[", LeadByte, ContinuationByte, "]">>
      [] kind = "interim" -> DataPrefix \o <<"[", "I", "]">>
      [] kind = "final"   -> DataPrefix \o <<"[", "F", "]">>
      [] kind = "several" -> DataPrefix \o <<"[", "T", "X", "I", "F", "]">>
      [] kind = "done"    -> DataPrefix \o DoneSentinel
      [] kind = "cut"     -> DataPrefix \o <<"[", "T">>
      [] kind = "comment" -> <<":", "[", "F", "]">>
      [] kind = "blank"   -> <<>>
      [] kind = "crlf"    -> DataPrefix \o <<"[", "F", "]", CR>>

\* the body made of the lines of the kinds given, each ended by a line feed
\* but, where open holds, the last
RECURSIVE BodyOf(_, _)
BodyOf(kinds, open) ==
    IF kinds = <<>> THEN <<>>
    ELSE LineOf(Head(kinds))
         \o (IF Len(kinds) = 1 /\ open THEN <<>> ELSE <<LF>>)
         \o BodyOf(Tail(kinds), open)

Inputs == UNION {[1..n -> LineKinds] : n \in 0..MaxLines}

\* the sizes of a chunk: up to the longest body
ChunkSizes == 1..(MaxLines * (Len(DataPrefix) + Len(DoneSentinel) + 1))

\* the parser is at rest outside the specification of the parser
NoParser == [pc |-> "none"]

\* reader.read() settles with the next size bytes of the body; midLine is
\* history: a chunk has ended inside a line
ParserRead(size) ==
    /\ parser.pc = "read" /\ parser.stream.error = ""
    /\ parser.read + size <= Len(parser.body)
    /\ LET stream == ProcessChunk(parser.stream,
                                  SubSeq(parser.body, parser.read + 1,
                                         parser.read + size))
       IN  parser' = [parser EXCEPT
                        !.read = @ + size,
                        !.stream = stream,
                        !.midLine = @ \/ stream.buffer # <<>> \/ stream.decoder # <<>>]
    /\ UNCHANGED <<queueVars, appVars, settingsVars, calls, hist, failCap, loads, files, legacy, fn>>

\* reader.read() settles with done
ParserDone ==
    /\ parser.pc = "read" /\ parser.stream.error = ""
    /\ parser.read = Len(parser.body)
    /\ parser' = [parser EXCEPT !.pc = "done"]
    /\ UNCHANGED <<queueVars, appVars, settingsVars, calls, hist, failCap, loads, files, legacy, fn>>

(***************************************************************************)
(* loadItemImages (queueStore.ts:236-260), called by the mount effects of  *)
(* the rows and cards that show an item (QueueItemRow.tsx:73-75, 629-631,  *)
(* GalleryCard.tsx:75-77).                                                 *)
(***************************************************************************)
\* queueStore.ts:237-245   up to the await of loadAllImages
LoadItemImages(id) ==
    /\ id \notin loads
    /\ \E i \in DOMAIN items :
          /\ items[i].id = id
          /\ ~(items[i].finalImage # "" \/ Len(items[i].referenceImages) > 0)
    /\ loads' = loads \cup {id}
    /\ UNCHANGED <<queueVars, appVars, settingsVars, calls, hist, failCap, files,
                   legacy, fn, parser>>

\* queueStore.ts:245-259   loadAllImages has settled with what is stored
LoadItemImagesDone(id) ==
    /\ id \in loads
    /\ LET loaded == loadAllImages(Cur, id)
           set(i) == IF i.id = id
                     THEN [i EXCEPT
                             !.referenceImages = IF Len(loaded.referenceImages) > 0
                                                 THEN loaded.referenceImages ELSE @,
                             !.interimImages = IF Len(loaded.interimImages) > 0
                                               THEN loaded.interimImages ELSE @,
                             !.finalImage = IF Len(loaded.finalImages) > 0
                                            THEN loaded.finalImages[1] ELSE @]
                     ELSE i
       IN  items' = MapItems(items, set)
    /\ loads' = loads \ {id}
    /\ UNCHANGED <<currentItemId, nextId, db, blob, appVars, settingsVars, calls,
                   hist, failCap, files, legacy, fn, parser>>

NoLegacy == [pc |-> "none"]
NoFn == [called |-> FALSE]

Init ==
    /\ items = <<>>
    /\ db = NoDb
    /\ blob = NoBlob
    /\ loads = {}
    /\ files = {<<>>}
    /\ currentItemId = NoItem
    /\ nextId = 1
    /\ isProcessingRef = FALSE
    /\ timerRef = NoItem
    /\ timers = {}
    /\ apiKeys = [p \in PROVIDERS |-> ""]
    /\ currentProvider = "google"
    /\ model = PROVIDER_DEFAULT_MODEL["google"]
    /\ calls = {}
    /\ hist = NoHist
    /\ failCap = MaxFailAttempts
    /\ legacy = NoLegacy
    /\ fn = NoFn
    /\ parser = NoParser

GoogleStep ==
    \/ \E id \in ItemIds, status \in ErrorStatuses : GoogleHttpError(id, status)
    \/ \E id \in ItemIds : GoogleNoBody(id)
    \/ \E id \in ItemIds : GoogleConnected(id)
    \/ \E id \in ItemIds : GoogleFinalImage(id)
    \/ \E id \in ItemIds : GoogleStreamEnd(id)
    \/ \E id \in ItemIds, error \in Exceptions : GoogleThrow(id, error)
    \/ \E id \in ItemIds : GoogleSleepDone(id)

OpenAIStep ==
    \/ \E id \in ItemIds, status \in ErrorStatuses : OpenAIHttpError(id, status)
    \/ \E id \in ItemIds : OpenAIResponse(id)
    \/ \E id \in ItemIds : OpenAIImage(id)
    \/ \E id \in ItemIds : OpenAINoImage(id)
    \/ \E id \in ItemIds, error \in Exceptions : OpenAIThrow(id, error)

BytePlusStep ==
    \/ \E id \in ItemIds, status \in ErrorStatuses : BytePlusHttpError(id, status)
    \/ \E id \in ItemIds : BytePlusResponse(id)
    \/ \E id \in ItemIds : BytePlusImage(id)
    \/ \E id \in ItemIds,
          message \in {"No image data in response", "No image was generated"} :
            BytePlusNoImage(id, message)
    \/ \E id \in ItemIds, error \in Exceptions : BytePlusThrow(id, error)

Next ==
    \/ HandleSubmit
    \/ \E id \in ItemIds : RemoveItem(id)
    \/ ClearCompleted
    \/ ClearAll
    \/ \E id \in ItemIds : RerunItem(id)
    \/ \E provider \in PROVIDERS, key \in {"", "key"} : SetApiKey(provider, key)
    \/ \E provider \in PROVIDERS : SetCurrentProvider(provider)
    \/ Restart
    \/ Wake
    \/ GoogleStep
    \/ OpenAIStep
    \/ BytePlusStep

Spec == Init /\ [][Next]_vars

(***************************************************************************)
(* The settings under the queue: the user sets and clears the credential   *)
(* of each provider, switches the provider and the model, and submits;     *)
(* the requests of the three adapters are answered with an image.          *)
(***************************************************************************)
\* the credential the user holds for each provider
CredentialOf ==
    [provider \in PROVIDERS |->
        CASE provider = "google" -> "key-google"
          [] provider = "openai" -> "key-openai"
          [] provider = "byteplus" -> "key-byteplus"]

NextSettings ==
    \/ HandleSubmit
    \/ \E id \in ItemIds : RerunItem(id)
    \/ \E provider \in PROVIDERS :
          \E key \in {"", CredentialOf[provider]} : SetApiKey(provider, key)
    \/ \E provider \in PROVIDERS : SetCurrentProvider(provider)
    \/ \E newModel \in UNION {PROVIDER_MODELS[provider] : provider \in PROVIDERS} :
          SetModel(newModel)
    \/ Wake
    \/ \E id \in ItemIds : GoogleConnected(id)
    \/ \E id \in ItemIds : GoogleFinalImage(id)
    \/ \E id \in ItemIds : GoogleStreamEnd(id)
    \/ \E id \in ItemIds : OpenAIResponse(id)
    \/ \E id \in ItemIds : OpenAIImage(id)
    \/ \E id \in ItemIds : BytePlusResponse(id)
    \/ \E id \in ItemIds : BytePlusImage(id)

SpecSettings == Init /\ [][NextSettings]_vars

(***************************************************************************)
(* The legacy adapter alone.                                               *)
(***************************************************************************)
NextBounded ==
    \/ LegacyStart
    \/ \E status \in ErrorStatuses : LegacyHttpError(status)
    \/ LegacyNoBody
    \/ LegacyConnected
    \/ LegacyFinalImage
    \/ LegacyStreamEnd
    \/ \E error \in Exceptions : LegacyThrow(error)
    \/ LegacySleepDone

SpecBounded == Init /\ [][NextBounded]_vars

(***************************************************************************)
(* One Google item through the whole retry policy: the back end may fail   *)
(* every attempt.                                                          *)
(***************************************************************************)
InitRetry ==
    /\ items = <<NewItem(1, ItemData("google", PROVIDER_DEFAULT_MODEL["google"], <<>>))>>
    /\ db = NoDb
    /\ blob = NoBlob
    /\ loads = {}
    /\ files = {<<>>}
    /\ currentItemId = NoItem
    /\ nextId = 2
    /\ isProcessingRef = FALSE
    /\ timerRef = NoItem
    /\ timers = {}
    /\ apiKeys = [p \in PROVIDERS |-> IF p = "google" THEN "key" ELSE ""]
    /\ currentProvider = "google"
    /\ model = PROVIDER_DEFAULT_MODEL["google"]
    /\ calls = {}
    /\ hist = NoHist
    /\ failCap = MAX_RETRIES
    /\ legacy = NoLegacy
    /\ fn = NoFn
    /\ parser = NoParser

NextRetry ==
    \/ Wake
    \/ GoogleStep

SpecRetry == InitRetry /\ [][NextRetry]_vars

(***************************************************************************)
(* getRetryInterval alone.                                                 *)
(***************************************************************************)
NextInterval == \E n \in 0..MaxConsecutive : CallGetRetryInterval(n)

SpecInterval == Init /\ [][NextInterval]_vars

(***************************************************************************)
(* Google items with a reference image and the parts of their streams,     *)
(* over restarts of the application; a request is refused with status 400  *)
(* or answered with a stream.                                              *)
(***************************************************************************)
ReferenceImage == "reference"

InitMedia ==
    /\ items = <<>>
    /\ db = NoDb
    /\ blob = NoBlob
    /\ loads = {}
    /\ files = {<<ReferenceImage>>}
    /\ currentItemId = NoItem
    /\ nextId = 1
    /\ isProcessingRef = FALSE
    /\ timerRef = NoItem
    /\ timers = {}
    /\ apiKeys = [p \in PROVIDERS |-> IF p = "google" THEN "key" ELSE ""]
    /\ currentProvider = "google"
    /\ model = PROVIDER_DEFAULT_MODEL["google"]
    /\ calls = {}
    /\ hist = NoHist
    /\ failCap = MaxFailAttempts
    /\ legacy = NoLegacy
    /\ fn = NoFn
    /\ parser = NoParser

NextMedia ==
    \/ HandleSubmit
    \/ Restart
    \/ Wake
    \/ \E id \in ItemIds : GoogleHttpError(id, 400)
    \/ \E id \in ItemIds : GoogleConnected(id)
    \/ \E id \in ItemIds, text \in {"thought"} : GoogleThoughtText(id, text)
    \/ \E id \in ItemIds, image \in {"interim"} : GoogleInterimImage(id, image)
    \/ \E id \in ItemIds : GoogleFinalImage(id)
    \/ \E id \in ItemIds : GoogleStreamEnd(id)
    \/ \E id \in ItemIds : GoogleSleepDone(id)
    \/ \E id \in ItemIds : LoadItemImages(id)
    \/ \E id \in ItemIds : LoadItemImagesDone(id)

SpecMedia == InitMedia /\ [][NextMedia]_vars

(***************************************************************************)
(* The queue over an image store whose calls may fail: Google items with a *)
(* reference image are submitted, removed and run again, their requests    *)
(* are answered with streams, and the application restarts.                *)
(***************************************************************************)

\* IndexedDB begins to fail (fails = TRUE) or works again
BlobStore(fails) ==
    /\ blob.fails # fails
    /\ blob' = [blob EXCEPT !.fails = fails]
    /\ UNCHANGED <<items, currentItemId, nextId, db, appVars, settingsVars, calls, hist,
                   failCap, loads, files, legacy, fn, parser>>

NextStore ==
    \/ HandleSubmit
    \/ \E id \in ItemIds : RemoveItem(id)
    \/ \E id \in ItemIds : RerunItem(id)
    \/ Restart
    \/ Wake
    \/ \E id \in ItemIds : GoogleHttpError(id, 400)
    \/ \E id \in ItemIds : GoogleConnected(id)
    \/ \E id \in ItemIds : GoogleFinalImage(id)
    \/ \E id \in ItemIds : GoogleStreamEnd(id)
    \/ \E id \in ItemIds : LoadItemImages(id)
    \/ \E id \in ItemIds : LoadItemImagesDone(id)
    \/ \E fails \in BOOLEAN : BlobStore(fails)

SpecStore == InitMedia /\ [][NextStore]_vars

(***************************************************************************)
(* The image store alone: saveImages and deleteImages are called with any  *)
(* item, with two of the types and any list of up to MaxImages images.     *)
(***************************************************************************)
\* two of the types 'reference' | 'interim' | 'final' (part_009:57)
ImageTypes == {"interim", "final"}
ImageData == {"a", "b"}
ImageLists == UNION {[1..n -> ImageData] : n \in 0..MaxImages}

\* part_009:55-87   one call of saveImages; fn tells whether the store held
\* the records of this very call before it
SaveImages(id, type, images) ==
    /\ fn' = [called |-> TRUE,
              again |-> images # <<>> /\ saveImages(Cur, id, type, images).db = db]
    /\ Commit(saveImages(Cur, id, type, images))
    /\ UNCHANGED <<nextId, settingsVars, calls, failCap, loads, files, legacy, parser>>

\* part_009:142-167   one call of deleteImages
DeleteImages(id) ==
    /\ \E r \in db : r.queueItemId = id
    /\ fn' = NoFn
    /\ Commit(deleteImages(Cur, id))
    /\ UNCHANGED <<nextId, settingsVars, calls, failCap, loads, files, legacy, parser>>

NextBlob ==
    \/ \E id \in ItemIds, type \in ImageTypes, images \in ImageLists :
          SaveImages(id, type, images)
    \/ \E id \in ItemIds : DeleteImages(id)

SpecBlob == Init /\ [][NextBlob]_vars

(***************************************************************************)
(* Items removed while the Google adapter works on them: their streams go  *)
(* on, and the interval of the elapsed time ticks.                         *)
(***************************************************************************)
NextRemoval ==
    \/ HandleSubmit
    \/ \E id \in ItemIds : RemoveItem(id)
    \/ Wake
    \/ \E id \in ItemIds : Tick(id)
    \/ \E id \in ItemIds : GoogleHttpError(id, 400)
    \/ \E id \in ItemIds : GoogleConnected(id)
    \/ \E id \in ItemIds, text \in {"thought"} : GoogleThoughtText(id, text)
    \/ \E id \in ItemIds, image \in {"interim"} : GoogleInterimImage(id, image)
    \/ \E id \in ItemIds : GoogleFinalImage(id)
    \/ \E id \in ItemIds : GoogleStreamEnd(id)
    \/ \E id \in ItemIds : GoogleSleepDone(id)

SpecRemoval == InitMedia /\ [][NextRemoval]_vars

(***************************************************************************)
(* A queue rehydrated from localStorage whose first item carries a         *)
(* provider tag no adapter is registered for (QueueItem.provider is a      *)
(* string, queueStore.ts:14): the item is pending, as rehydration leaves   *)
(* it, and items of the Google adapter are submitted behind it.            *)
(***************************************************************************)
UnknownTags == {"stability", "midjourney"}

InitUnknown ==
    /\ \E tag \in UnknownTags : items = <<NewItem(1, ItemData(tag, tag, <<>>))>>
    /\ db = NoDb
    /\ blob = NoBlob
    /\ loads = {}
    /\ files = {<<>>}
    /\ currentItemId = NoItem
    /\ nextId = 2
    /\ isProcessingRef = FALSE
    /\ timerRef = NoItem
    /\ timers = {}
    /\ apiKeys = [p \in PROVIDERS |-> IF p = "google" THEN "key" ELSE ""]
    /\ currentProvider = "google"
    /\ model = PROVIDER_DEFAULT_MODEL["google"]
    /\ calls = {}
    /\ hist = NoHist
    /\ failCap = MaxFailAttempts
    /\ legacy = NoLegacy
    /\ fn = NoFn
    /\ parser = NoParser

NextUnknown ==
    \/ HandleSubmit
    \/ \E id \in ItemIds : RemoveItem(id)
    \/ \E id \in ItemIds : RerunItem(id)
    \/ ClearCompleted
    \/ Restart
    \/ Wake
    \/ \E id \in ItemIds : Tick(id)
    \/ \E id \in ItemIds : GoogleHttpError(id, 400)
    \/ \E id \in ItemIds : GoogleConnected(id)
    \/ \E id \in ItemIds, text \in {"thought"} : GoogleThoughtText(id, text)
    \/ \E id \in ItemIds : GoogleFinalImage(id)
    \/ \E id \in ItemIds : GoogleStreamEnd(id)

SpecUnknown == InitUnknown /\ [][NextUnknown]_vars

(***************************************************************************)
(* The options of the settings store (provider, resolution, aspect ratio,  *)
(* model) under the setters the header and the settings panel call, and    *)
(* the size the OpenAI adapter maps a request to.  fn holds the settings   *)
(* state, the state before the last setter and the last application of     *)
(* mapResolution.                                                          *)
(***************************************************************************)
\* constants.ts:25-29
PROVIDER_RESOLUTIONS ==
    [provider \in {"google", "openai", "byteplus"} |->
        CASE provider = "google" -> <<"1K", "2K", "4K">>
          [] provider = "openai" -> <<"1024x1024", "1536x1024", "1024x1536">>
          [] provider = "byteplus" -> <<"2K", "4K">>]

\* constants.ts:46-50
PROVIDER_ASPECT_RATIOS ==
    [provider \in {"google", "openai", "byteplus"} |->
        CASE provider = "google" -> <<"16:9", "9:16", "1:1", "4:3", "3:4", "21:9", "3:2",
                                      "2:3", "5:4", "4:5">>
          [] provider = "openai" -> <<"1:1", "3:2", "2:3">>
          [] provider = "byteplus" -> <<"1:1", "3:2", "4:3", "16:9", "21:9">>]

\* constants.ts:79-90
ASPECT_RATIOS == <<"16:9", "9:16", "1:1", "4:3", "3:4", "21:9", "3:2", "2:3", "5:4", "4:5">>

\* Array.prototype.includes
ArrayIncludes(seq, value) == \E k \in DOMAIN seq : seq[k] = value

\* settingsStore.ts:43-56   the initial state of the settings store
InitialSettings ==
    [apiKeys |-> [p \in PROVIDERS |-> ""],
     currentProvider |-> "google",
     resolution |-> DEFAULT_RESOLUTION,
     aspectRatio |-> DEFAULT_ASPECT_RATIO,
     model |-> "gemini-3-pro-image-preview",
     apiKey |-> ""]

\* a setCurrentProvider that carries the resolution and aspect ratio over
setCurrentProvider_KeepsOptions(state, provider) ==
    [state EXCEPT !.currentProvider = provider,
                  !.model = PROVIDER_DEFAULT_MODEL[provider],
                  !.apiKey = state.apiKeys[provider]]

\* settingsStore.ts:65-86
setCurrentProvider(state, provider) ==
    LET providerResolutions == PROVIDER_RESOLUTIONS[provider]
        providerAspectRatios == PROVIDER_ASPECT_RATIOS[provider]
        newResolution == IF ArrayIncludes(providerResolutions, state.resolution)
                         THEN state.resolution
                         ELSE providerResolutions[1]
        newAspectRatio == IF ArrayIncludes(providerAspectRatios, state.aspectRatio)
                          THEN state.aspectRatio
                          ELSE providerAspectRatios[1]
    IN  [state EXCEPT !.currentProvider = provider,
                      !.resolution = newResolution,
                      !.aspectRatio = newAspectRatio,
                      !.model = PROVIDER_DEFAULT_MODEL[provider],
                      !.apiKey = state.apiKeys[provider]]

\* openai.ts:206-222
mapResolution(resolution, aspectRatio) ==
    IF resolution = "1024x1024" \/ resolution = "1536x1024" \/ resolution = "1024x1536"
    THEN resolution
    ELSE IF aspectRatio = "1:1"
    THEN "1024x1024"
    ELSE IF aspectRatio = "3:2" \/ aspectRatio = "16:9"
    THEN "1536x1024"
    ELSE IF aspectRatio = "2:3" \/ aspectRatio = "9:16"
    THEN "1024x1536"
    ELSE "1024x1024"

NoMapping == [resolution |-> "", aspectRatio |-> "", size |-> ""]

InitOptions ==
    /\ items = <<>>
    /\ db = NoDb
    /\ blob = NoBlob
    /\ loads = {}
    /\ files = {<<>>}
    /\ currentItemId = NoItem
    /\ nextId = 1
    /\ isProcessingRef = FALSE
    /\ timerRef = NoItem
    /\ timers = {}
    /\ apiKeys = InitialSettings.apiKeys
    /\ currentProvider = InitialSettings.currentProvider
    /\ model = InitialSettings.model
    /\ calls = {}
    /\ hist = NoHist
    /\ failCap = MAX_RETRIES
    /\ legacy = NoLegacy
    /\ fn = [called |-> "", state |-> InitialSettings, before |-> InitialSettings,
             mapped |-> NoMapping]
    /\ parser = NoParser

\* settingsStore.ts:65-86, from the provider buttons (SettingsPanel.tsx)
CallSetCurrentProvider(provider) ==
    /\ fn' = [fn EXCEPT !.called = "setCurrentProvider", !.before = fn.state,
                        !.state = setCurrentProvider(fn.state, provider)]
    /\ apiKeys' = fn'.state.apiKeys
    /\ currentProvider' = fn'.state.currentProvider
    /\ model' = fn'.state.model
    /\ UNCHANGED <<queueVars, appVars, calls, hist, failCap, loads, files, legacy, parser>>

\* settingsStore.ts:88, from the resolutions the panels list for the current
\* provider (SettingsPanel.tsx:41, 151; Header.tsx:125, 442)
CallSetResolution(resolution) ==
    /\ ArrayIncludes(PROVIDER_RESOLUTIONS[fn.state.currentProvider], resolution)
    /\ fn' = [fn EXCEPT !.called = "setResolution", !.before = fn.state,
                        !.state = [fn.state EXCEPT !.resolution = resolution]]
    /\ UNCHANGED <<queueVars, appVars, settingsVars, calls, hist, failCap, loads, files,
                   legacy, parser>>

\* settingsStore.ts:89, from the aspect ratios the panels list for the
\* current provider (SettingsPanel.tsx:43, 187; Header.tsx:127, 458)
CallSetAspectRatio(aspectRatio) ==
    /\ ArrayIncludes(PROVIDER_ASPECT_RATIOS[fn.state.currentProvider], aspectRatio)
    /\ fn' = [fn EXCEPT !.called = "setAspectRatio", !.before = fn.state,
                        !.state = [fn.state EXCEPT !.aspectRatio = aspectRatio]]
    /\ UNCHANGED <<queueVars, appVars, settingsVars, calls, hist, failCap, loads, files,
                   legacy, parser>>

\* openai.ts:20, 126   mapResolution applied to the resolution and aspect
\* ratio of a request
CallMapResolution(resolution, aspectRatio) ==
    /\ fn' = [fn EXCEPT !.called = "mapResolution",
                        !.mapped = [resolution |-> resolution, aspectRatio |-> aspectRatio,
                                    size |-> mapResolution(resolution, aspectRatio)]]
    /\ UNCHANGED <<queueVars, appVars, settingsVars, calls, hist, failCap, loads, files,
                   legacy, parser>>

NextOptions ==
    \/ \E provider \in PROVIDERS : CallSetCurrentProvider(provider)
    \/ \E resolution \in {"1K", "2K", "4K", "1024x1024", "1536x1024", "1024x1536"} :
          CallSetResolution(resolution)
    \/ \E k \in DOMAIN ASPECT_RATIOS : CallSetAspectRatio(ASPECT_RATIOS[k])
    \/ \E resolution \in {"1K", "2K", "4K", "1024x1024", "1536x1024", "1024x1536"},
          k \in DOMAIN ASPECT_RATIOS :
          CallMapResolution(resolution, ASPECT_RATIOS[k])

SpecOptions == InitOptions /\ [][NextOptions]_vars

(***************************************************************************)
(* The event parser alone: one response body, delivered in chunks of any   *)
(* sizes.                                                                  *)
(***************************************************************************)
InitParser ==
    /\ items = <<>>
    /\ db = NoDb
    /\ blob = NoBlob
    /\ loads = {}
    /\ files = {<<>>}
    /\ currentItemId = NoItem
    /\ nextId = 1
    /\ isProcessingRef = FALSE
    /\ timerRef = NoItem
    /\ timers = {}
    /\ apiKeys = [p \in PROVIDERS |-> ""]
    /\ currentProvider = "google"
    /\ model = PROVIDER_DEFAULT_MODEL["google"]
    /\ calls = {}
    /\ hist = NoHist
    /\ failCap = MaxFailAttempts
    /\ legacy = NoLegacy
    /\ fn = NoFn
    /\ \E kinds \in Inputs, open \in BOOLEAN :
          parser = [pc |-> "read", kinds |-> kinds, open |-> open,
                    body |-> BodyOf(kinds, open), read |-> 0, midLine |-> FALSE,
                    stream |-> NewStream]

NextParser ==
    \/ \E size \in ChunkSizes : ParserRead(size)
    \/ ParserDone

SpecParser == InitParser /\ [][NextParser]_vars

(***************************************************************************)
(* The properties.                                                         *)
(***************************************************************************)
Generating == {i \in DOMAIN items : items[i].status = "generating"}
Pending == {i \in DOMAIN items : items[i].status = "pending"}
PendingIds(its) == {its[i].id : i \in {j \in DOMAIN its : its[j].status = "pending"}}

\* C1: in every reachable state at most one item of the queue has the status
\* 'generating', whatever the interleaving of user operations, wake-ups of
\* the queue effect and adapter callbacks.
C1_AtMostOneGenerating == Cardinality(Generating) <= 1

\* an item is being generated while another one waits and a credential is set
C1_Witness ==
    /\ Generating # {} /\ Pending # {}
    /\ getCurrentApiKey # ""
    /\ calls # {}

\* C2: at most one adapter invocation is in flight at any time, also after
\* the item of the running invocation was removed from the queue.
C2_AtMostOneInvocation == Cardinality(calls) <= 1

\* the invocation of a removed item still runs while a pending item and a
\* credential are there
C2_Witness ==
    /\ \E c \in calls : ~InQueue(items, c.item)
    /\ Pending # {}
    /\ getCurrentApiKey # ""

\* C3: the item a step turns from 'pending' into 'generating' is the pending
\* item that was enqueued earliest (identities are handed out in the order of
\* enqueueing; rerun items get a new identity, demoted items keep theirs).
C3_PicksEarliestPending ==
    [][\A i \in DOMAIN items' :
          (items'[i].status = "generating" /\ items'[i].id \in PendingIds(items))
              => \A id \in PendingIds(items) : items'[i].id <= id]_vars

\* an item was picked while a later one stays pending
C3_Witness ==
    \E i \in Generating, j \in Pending : items[i].id < items[j].id

\* C4: an item whose status is 'completed' or 'error' keeps that status for as
\* long as it is in the queue.
C4_TerminalStatusIsFinal ==
    [][\A i \in DOMAIN items, j \in DOMAIN items' :
          (items[i].status \in {"completed", "error"} /\ items'[j].id = items[i].id)
              => items'[j].status = items[i].status]_vars

\* C5: when the queue is idle (no invocation runs, no item is generating)
\* while an item is pending and the credential of the current provider is
\* set, the step that starts the next item can be taken.
C5_IdleQueueStartsNext ==
    (calls = {} /\ Generating = {} /\ Pending # {} /\ getCurrentApiKey # "")
        => ENABLED Wake

\* C6: an item whose latest attempt failed with a retryable error (HTTP >= 500,
\* HTTP 429, network failure, no artifact) is not in 'error' before its
\* attempts have reached the ceiling of the retry policy.
C6_NoErrorBeforeCeiling ==
    \A i \in DOMAIN items :
        (items[i].status = "error" /\ hist[items[i].id].lastFail = "retryable")
            => hist[items[i].id].fetches >= MAX_RETRIES

\* the messages the adapters give for the fatal failures of the model
FatalMessages == {ApiErrorMessage(400)} \cup
                 {e.message : e \in {x \in Exceptions : ClassOfException(x) = "fatal"}}

\* C7: after an attempt of an item failed with a fatal error (4xx other than
\* 429, a non-retryable exception) onError was called, no invocation works on
\* the item any more, and the item is in 'error' with the message of the
\* provider; on the first attempt as on a later one.
C7_FatalErrorEndsTheCall ==
    \A i \in DOMAIN items :
        hist[items[i].id].lastFail = "fatal"
            => /\ items[i].status = "error"
               /\ items[i].error \in FatalMessages
               /\ CallsOf(items[i].id) = {}
               /\ \E k \in DOMAIN hist[items[i].id].log :
                      hist[items[i].id].log[k] = "onError"

\* a fatal failure on the second attempt of an item
C7_Witness ==
    \E i \in DOMAIN items :
        /\ hist[items[i].id].lastFail = "fatal"
        /\ hist[items[i].id].fetches = 2
        /\ items[i].status = "error"

\* C8: under the bounded policy, when every attempt was answered with a 429,
\* the invocation has made exactly 30 network calls when it returns, and it
\* has called onError once, with the 'Maximum retries' message.
C8_ExhaustedRetriesMessage ==
    (legacy.pc = "returned" /\ legacy.only429)
        => /\ legacy.fetches = LEGACY_MAX_RETRIES
           /\ legacy.errors = <<LegacyMaxRetriesMessage>>

\* every attempt of the one Google invocation failed with a retryable error
AllAttemptsFailed ==
    /\ calls = {}
    /\ hist[1].fetches = MAX_RETRIES
    /\ hist[1].lastFail = "retryable"

\* the continuations the one Google invocation can still run at most: five
\* for every attempt it has not begun, those left in the attempt it is in,
\* and the completeItem calls the history still tells apart
Remaining ==
    IF calls = {}
    THEN IF hist[1].fetches = 0 THEN 5 * MAX_RETRIES + 7 ELSE 0
    ELSE LET c == CHOOSE x \in calls : TRUE
         IN  5 * (MAX_RETRIES - c.attempt) + (2 - hist[1].completions)
                 + (CASE c.pc = "fetch" -> 4
                      [] c.pc = "stream" -> IF c.hasFinalImage THEN 2 ELSE 3
                      [] c.pc = "sleep" -> 1)

\* C9: under the conservative policy one invocation makes at most 100
\* attempts and terminates: every step of it brings its return nearer, so
\* that it cannot run for ever.  When all 100 attempts failed
\* with retryable errors it has called onError exactly once, with the
\* max-retries message, and then onComplete.
C9_ConservativePolicyIsBounded ==
    /\ [](/\ hist[1].fetches <= MAX_RETRIES
          /\ AllAttemptsFailed
                => /\ hist[1].log = <<"onError", "onComplete">>
                   /\ items[1].status = "error"
                   /\ items[1].error = MaxRetriesMessage
                   /\ ~isProcessingRef
          /\ Remaining >= 0)
    /\ [][Remaining' < Remaining]_vars

\* the invocation has ended after 100 failed attempts
C9_Witness == AllAttemptsFailed /\ Len(hist[1].log) = 2

\* C11: while an invocation under the conservative policy waits for its next
\* attempt after more than 10 attempts in a row have failed with one tag (an
\* HTTP status, network, no response body, no image), the wait is longer
\* than the initial 60 seconds.
C11_BackoffAfterThreshold ==
    \A c \in calls :
        (c.pc = "sleep" /\ c.tagStreak > BACKOFF_THRESHOLD)
            => MsLess(Ms(60 * 1000), c.retryInterval)

\* C12: when an attempt of the conservative retry loop fails, the counter of
\* consecutive failures is one more than after the failure before if the
\* tag is that of the failure before and the request of the attempt was not
\* answered with an HTTP success, and it is 1 otherwise.
C12_ConsecutiveCounter ==
    [][\A c \in calls, d \in calls' :
          (c.item = d.item /\ c.pc \in {"fetch", "stream"} /\ d.pc = "sleep")
              => d.consecutiveSameErrors =
                     IF d.lastTag = c.lastTag /\ ~d.accepted
                     THEN c.consecutiveSameErrors + 1 ELSE 1]_vars

\* the counter has grown, and it has started anew for a failure with the tag
\* of the failure before, in an attempt the server had accepted
C12_Witness ==
    \E c \in calls :
        /\ c.pc = "sleep" /\ c.accepted
        /\ c.tagStreak = 3 /\ c.consecutiveSameErrors = 1
        /\ c.lastTag = "network"

\* C10: getRetryInterval(n) is 60 s for n <= 10; beyond that each further
\* failure multiplies it by 1.5 for as long as the product is below 24 h, from
\* where on it is 24 h; it never exceeds 24 h and never decreases in n.
C10_RetryInterval ==
    fn.called =>
        /\ fn.n <= BACKOFF_THRESHOLD => fn.interval = Ms(60 * 1000)
        /\ (fn.n = fn.before.n + 1 /\ fn.before.n >= BACKOFF_THRESHOLD)
               => LET next == MsTimes(fn.before.interval, 3, 2)
                  IN  fn.interval = IF MsLess(next, Ms(24 * 60 * 60 * 1000))
                                    THEN next ELSE Ms(24 * 60 * 60 * 1000)
        /\ MsLeq(fn.interval, Ms(24 * 60 * 60 * 1000))
        /\ fn.before.n <= fn.n => MsLeq(fn.before.interval, fn.interval)

\* the interval reaches the cap: the application before was below it
C10_Witness ==
    /\ fn.called
    /\ fn.n = fn.before.n + 1
    /\ fn.interval = Ms(24 * 60 * 60 * 1000)
    /\ MsLess(fn.before.interval, fn.interval)
    /\ MsLess(Ms(60 * 1000), fn.before.interval)

Parsing == parser.pc \in {"read", "done"}
\* the lines of the body whose line feed has been read
LinesEnded == Cardinality({i \in 1..parser.read : parser.body[i] = LF})
EventKinds == {"thought", "accent", "interim", "final", "several", "crlf"}
\* the callbacks the parts of the lines of the kinds given stand for, in order
RECURSIVE PartsIn(_)
PartsIn(kinds) ==
    IF kinds = <<>> THEN <<>>
    ELSE (CASE Head(kinds) = "thought" -> <<[cb |-> "onThoughtText", data |-> "T"]>>
            [] Head(kinds) = "accent"  -> <<[cb |-> "onThoughtText", data |-> Eacute]>>
            [] Head(kinds) = "interim" -> <<[cb |-> "onInterimImage", data |-> "I"]>>
            [] Head(kinds) \in {"final", "crlf"} ->
                   <<[cb |-> "onFinalImage", data |-> "F"]>>
            [] Head(kinds) = "several" -> <<[cb |-> "onThoughtText", data |-> "T"],
                                            [cb |-> "onInterimImage", data |-> "I"],
                                            [cb |-> "onFinalImage", data |-> "F"]>>
            [] OTHER -> <<>>)
         \o PartsIn(Tail(kinds))

\* C13: the callbacks and progress reports the parser has made after any
\* sequence of chunks, cut anywhere (inside a line, inside a character), are
\* those it makes when the same bytes arrive as one chunk.
C13_ChunkingIndependent ==
    Parsing =>
        LET whole == ProcessChunk(NewStream, SubSeq(parser.body, 1, parser.read))
        IN  /\ parser.stream.log = whole.log
            /\ parser.stream.progress = whole.progress
            /\ parser.stream.hasFinalImage = whole.hasFinalImage
            /\ parser.stream.buffer = whole.buffer

\* a body of three lines, one of them with the two-byte character, has been
\* read in chunks that ended inside a line and has given its three callbacks
C13_Witness ==
    /\ parser.pc = "done" /\ ~parser.open /\ parser.midLine
    /\ parser.kinds = <<"interim", "accent", "final">>
    /\ Len(parser.stream.log) = 3

\* C14: for a body of event lines, the callbacks made are exactly one per
\* thought-text, thought-image and final-image part of the lines whose line
\* feed has arrived, in the order of the stream.
C14_OneCallbackPerPart ==
    (Parsing /\ \A i \in DOMAIN parser.kinds : parser.kinds[i] \in EventKinds)
        => parser.stream.log = PartsIn(SubSeq(parser.kinds, 1, LinesEnded))

\* one thought, one interim image and one final image have arrived and given
\* onThoughtText, onInterimImage, onFinalImage, once each and in this order
C14_Witness ==
    /\ parser.pc = "done" /\ ~parser.open
    /\ parser.kinds = <<"thought", "interim", "final">>
    /\ parser.stream.log = <<[cb |-> "onThoughtText", data |-> "T"],
                             [cb |-> "onInterimImage", data |-> "I"],
                             [cb |-> "onFinalImage", data |-> "F"]>>

\* C15: a complete line whose JSON does not parse and an end-of-stream
\* sentinel line give no callback and no exception leaves the parser; the
\* event lines before and after them give their callbacks.
C15_BadLinesAreSkipped ==
    (Parsing /\ \E i \in DOMAIN parser.kinds : parser.kinds[i] \in {"cut", "done"})
        => /\ parser.stream.error = ""
           /\ parser.stream.log = PartsIn(SubSeq(parser.kinds, 1, LinesEnded))

\* an event line, a line that does not parse and another event line have been
\* read: two callbacks
C15_Witness ==
    /\ parser.pc = "done" /\ ~parser.open
    /\ parser.kinds = <<"thought", "cut", "final">>
    /\ Len(parser.stream.log) = 2
    /\ parser.stream.error = ""

StatusOf(its, id) ==
    IF InQueue(its, id)
    THEN (CHOOSE item \in {its[i] : i \in DOMAIN its} : item.id = id).status
    ELSE "none"

\* C16: an item takes the status 'completed' only in the step in which its
\* adapter hands over a final image; when the stream of an attempt of the
\* Google adapter ends and no final image came in it, the step changes no
\* status: the attempt is recorded as a no_image failure and the adapter
\* waits to retry.
C16_CompletedOnlyWithFinalImage ==
    [][\A id \in ItemIds :
          /\ (StatusOf(items, id) # "completed" /\ StatusOf(items', id) = "completed")
                 => (GoogleFinalImage(id) \/ OpenAIImage(id) \/ BytePlusImage(id))
          /\ \A c \in CallsOf(id) :
                 (c.pc = "stream" /\ ~c.hasFinalImage /\ GoogleStreamEnd(id))
                     => /\ StatusOf(items', id) = StatusOf(items, id)
                        /\ \E d \in calls' :
                              /\ d.item = id /\ d.pc = "sleep"
                              /\ d.lastErrorType = "no_image"]_vars

\* the first attempt for an item ended without a final image, the second has
\* delivered one and the item is completed
C16_Witness ==
    \E c \in calls :
        /\ c.pc = "stream" /\ c.hasFinalImage /\ c.attempt = 2
        /\ c.lastTag = "no_image"
        /\ StatusOf(items, c.item) = "completed"

\* C17 (refuted): the progress values reported while one response stream is
\* read never decrease.
C17_ProgressNeverDecreases ==
    Parsing =>
        LET progress == parser.stream.progress
        IN  \A i \in 1..(Len(progress) - 1) : progress[i] <= progress[i + 1]

ItemOf(its, id) == CHOOSE item \in {its[i] : i \in DOMAIN its} : item.id = id

\* C18 (refuted): in the step in which the adapter starts a retry attempt for
\* an item, the thought-text list and the interim-image list of the item are
\* empty.
C18_RetryStartsClean ==
    [][\A c \in calls, d \in calls' :
          (c.item = d.item /\ c.pc = "sleep" /\ d.pc = "fetch"
           /\ InQueue(items', d.item))
              => /\ ItemOf(items', d.item).thoughtTexts = <<>>
                 /\ ItemOf(items', d.item).interimImages = <<>>]_vars

\* C19 (refuted): the request of every adapter invocation, which each of its
\* attempts sends, is the request that was enqueued for the item: the same
\* prompt, reference images, resolution and aspect ratio.
C19_RequestAsEnqueued ==
    \A c \in calls :
        InQueue(items, c.item) => c.request = hist[c.item].enqueued

\* C20: a restart turns every 'generating' item into a 'pending' item without
\* progress and status message, keeps the status of every other item and the
\* order of the queue, leaves no item 'generating' and the current-item slot
\* empty; and an item takes the status 'generating' only in a step of
\* processQueue that picks it.
C20_RestartRecovery ==
    [][/\ Restart =>
            /\ Len(items') = Len(items)
            /\ \A i \in DOMAIN items :
                  /\ items'[i].id = items[i].id
                  /\ IF items[i].status = "generating"
                     THEN /\ items'[i].status = "pending"
                          /\ items'[i].progress = NoProgress
                          /\ items'[i].statusMessage = ""
                     ELSE items'[i].status = items[i].status
            /\ \A i \in DOMAIN items' : items'[i].status # "generating"
            /\ currentItemId' = NoItem
       /\ \A id \in ItemIds :
             (StatusOf(items, id) # "generating" /\ StatusOf(items', id) = "generating")
                 => /\ ~isProcessingRef /\ isProcessingRef'
                    /\ currentItemId' = id
                    /\ getNextPending(Cur) # <<>> /\ Head(getNextPending(Cur)).id = id
                    /\ \E c \in calls' \ calls : c.item = id]_vars

\* after a restart: an item that had received an interim image while it was
\* generating is pending without progress, behind an item that is still in
\* error, and nothing is generating
C20_Witness ==
    /\ Len(items) = 2
    /\ items[1].status = "error"
    /\ items[2].status = "pending" /\ items[2].progress = NoProgress
    /\ items[2].statusMessage = "" /\ loadImages(Cur, items[2].id, "interim") # <<>>
    /\ currentItemId = NoItem /\ calls = {}

(***************************************************************************)
(* Claims C21 to C30.                                                      *)
(***************************************************************************)
\* C21: completeItem is called at most once for an item in one processing
\* run, also when the stream carries several final-image parts or an attempt
\* follows one that delivered a final image
C21_CompletesOnce == \A id \in ItemIds : hist[id].completions <= 1

\* the reference images of an item: those it holds in memory or, when it
\* holds none, those the image store keeps for it
ReferenceImagesOf(id) ==
    IF ItemOf(items, id).referenceImages # <<>>
    THEN ItemOf(items, id).referenceImages
    ELSE loadImages([Cur EXCEPT !.blob.fails = FALSE], id, "reference")

\* C22: rerunItem(id) for an item of the queue appends exactly one item, with
\* a fresh identity, pending, with the prompt, reference images, resolution,
\* aspect ratio, model and provider of the original, and leaves the original
\* and every other item as they were
C22_RerunDuplicatesRequest ==
    [][\A id \in ItemIds :
          RerunItem(id)
              => /\ Len(items') = Len(items) + 1
                 /\ SubSeq(items', 1, Len(items)) = items
                 /\ ~InQueue(items, items'[Len(items')].id)
                 /\ items'[Len(items')].status = "pending"
                 /\ items'[Len(items')].model = ItemOf(items, id).model
                 /\ items'[Len(items')].provider = ItemOf(items, id).provider
                 /\ RequestOf(items'[Len(items')])
                        = [RequestOf(ItemOf(items, id))
                               EXCEPT !.referenceImages = ReferenceImagesOf(id)]]_vars

\* a callback of the adapter invocation for id, or a tick of its interval
CallbackFor(id) ==
    \/ Tick(id)
    \/ GoogleHttpError(id, 400)
    \/ GoogleConnected(id)
    \/ GoogleThoughtText(id, "thought")
    \/ GoogleInterimImage(id, "interim")
    \/ GoogleFinalImage(id)
    \/ GoogleStreamEnd(id)
    \/ GoogleSleepDone(id)

\* C23: once the item an adapter works on has been removed, no callback of
\* that invocation (progress, status message, thought text, interim image,
\* final image, error) and no tick of its interval changes the items: the
\* removed item does not come back and no other item changes
C23_CallbacksAfterRemoval ==
    [][\A id \in ItemIds :
          (~InQueue(items, id) /\ CallbackFor(id)) => items' = items]_vars

\* an item was removed while the adapter worked on it, another item is in the
\* queue, and a final image has arrived for the removed one since
C23_Witness ==
    \E c \in calls :
        /\ ~InQueue(items, c.item)
        /\ c.hasFinalImage
        /\ c.item \in timers
        /\ items # <<>>

\* C24: while the interval that updates the elapsed time of an item is set,
\* the item is generating: the interval is cleared as soon as the item is
\* completed, failed or removed
C24_TickerOnlyWhileGenerating ==
    \A id \in timers : StatusOf(items, id) = "generating"

C26_ConfigOfOwnProvider ==
    [][\A c \in calls' \ calls :
          /\ c.config.provider = ItemOf(items, c.item).provider
          /\ c.config.model = ItemOf(items, c.item).model
          /\ c.config.apiKey = apiKeys[c.config.provider]]_vars

\* C27: one invocation of an adapter's generateImageStream makes exactly one
\* network attempt and does not retry by itself, for each of the three
\* adapters
C27_OneAttemptPerInvocation ==
    \A c \in calls : c.attempt = 1 /\ hist[c.item].fetches <= 1

\* C28: after a call of addInterimImage for an item, its interim list holds
\* at most 2 images and is the last min(2, n) of the n images received for
\* the item since its last startProcessing, in the order they arrived
C28_InterimIsLastTwo ==
    [][\A id \in ItemIds :
          (InQueue(items, id) /\ GoogleInterimImage(id, "interim"))
              => /\ Len(ItemOf(items', id).interimImages) <= 2
                 /\ ItemOf(items', id).interimImages = hist'[id].received]_vars

\* C29: a failing call of the image store (saveImages, loadImages,
\* loadAllImages, deleteImages) raises no error into its caller and changes
\* the status of no item: with a failing store an item is completed by its
\* final image and failed by its error as with a working one, and removing,
\* rerunning and loading leave the status of every item as it was
C29_BlobFailuresAreContained ==
    /\ [](~blob.escaped)
    /\ [][\A id \in ItemIds :
            InQueue(items, id)
                => /\ GoogleFinalImage(id) => StatusOf(items', id) = "completed"
                   /\ GoogleHttpError(id, 400) => StatusOf(items', id) = "error"
                   /\ (RemoveItem(id) \/ RerunItem(id) \/ LoadItemImagesDone(id))
                         => \A other \in ItemIds :
                               (InQueue(items, other) /\ InQueue(items', other))
                                   => StatusOf(items', other) = StatusOf(items, other)]_vars

\* an item was completed while the image store failed: its final image is in
\* memory and not in the store
C29_Witness ==
    /\ blob.fails
    /\ \E i \in DOMAIN items :
          /\ items[i].status = "completed"
          /\ items[i].finalImage # ""
          /\ \A r \in db : ~(r.queueItemId = items[i].id /\ r.type = "final")

\* C30: a call of saveImages with the item, type and images of the call
\* before it leaves the store as that call left it, and every key (item,
\* type, index) holds exactly one record: a record is overwritten, never
\* duplicated
C30_SaveIsIdempotent ==
    [][\A id \in ItemIds, type \in ImageTypes, images \in ImageLists :
          SaveImages(id, type, images)
              => /\ saveImages([Cur EXCEPT !.db = db'], id, type, images).db = db'
                 /\ \A r \in db', q \in db' : r.id = q.id => r = q
                 /\ loadImages([Cur EXCEPT !.db = db'], id, type)
                        = images \o SubSeq(loadImages(Cur, id, type), Len(images) + 1,
                                           Len(loadImages(Cur, id, type)))]_vars

\* saveImages was called with two images whose records the store already
\* held, while it holds records of another type as well
C30_Witness ==
    /\ fn.called /\ fn.again
    /\ \E r \in db, q \in db : r.index = 1 /\ q.type # r.type

(***************************************************************************)
(* Claims C31 to C39.                                                      *)
(***************************************************************************)
\* C38: after saveImages(id, type, images) with a non-empty list, loadImages
\* of the same item and type returns exactly that list, in order, whatever
\* was saved for them before
C38_LoadReturnsWhatWasSaved ==
    [][\A id \in ItemIds, type \in ImageTypes, images \in ImageLists :
          (images # <<>> /\ SaveImages(id, type, images))
              => loadImages([Cur EXCEPT !.db = db'], id, type) = images]_vars

\* C37: once the adapter invocations have returned, the image store holds no
\* record of an item that was removed from the queue, also when callbacks
\* for the item arrived after removeItem or clearAll
C37_NoImagesOfRemovedItems ==
    calls = {} => \A r \in db : InQueue(items, r.queueItemId)

\* the position of the item id in the items
PositionOf(its, id) == CHOOSE k \in DOMAIN its : its[k].id = id

\* C39: clearCompleted removes exactly the completed and the failed items
\* and leaves every pending and generating item, their order and
\* currentItemId as they were
C39_ClearCompletedFrame ==
    [][ClearCompleted
          => /\ \A k \in DOMAIN items :
                    items[k].status \in {"pending", "generating"}
                        <=> \E l \in DOMAIN items' : items'[l] = items[k]
             /\ \A l \in DOMAIN items' : \E k \in DOMAIN items : items[k] = items'[l]
             /\ \A k, l \in DOMAIN items' :
                    k < l => PositionOf(items, items'[k].id) < PositionOf(items, items'[l].id)
             /\ currentItemId' = currentItemId]_vars

\* clearCompleted has an item to remove and one to keep: a completed item
\* stands before the item that is generating in the current-item slot
C39_Witness ==
    /\ Len(items) = 2
    /\ items[1].status = "completed"
    /\ items[2].status = "generating"
    /\ currentItemId = items[2].id

\* the ids of the items that are generating
GeneratingIds == {items[k].id : k \in {l \in DOMAIN items : items[l].status = "generating"}}

\* C36: currentItemId is set if and only if exactly one item is generating,
\* and then it is the id of that item; completeItem, failItem, removeItem of
\* the current item, clearAll and rehydration leave it null
C36_CurrentItemIsTheGeneratingOne ==
    /\ [](GeneratingIds = IF currentItemId = NoItem THEN {} ELSE {currentItemId})
    /\ [][(\/ Restart
           \/ ClearAll
           \/ \E id \in ItemIds : currentItemId = id /\ RemoveItem(id)
           \/ \E id \in ItemIds :
                 /\ StatusOf(items, id) = "generating"
                 /\ StatusOf(items', id) \in {"completed", "error"})
              => currentItemId' = NoItem]_vars

\* the first item has failed and left the slot, and the second is generating
\* in it
C36_Witness ==
    /\ Len(items) = 2
    /\ items[1].status = "error"
    /\ items[2].status = "generating"
    /\ currentItemId = items[2].id

\* the calls of onComplete in the callbacks logged for an invocation
OnCompleteCalls(log) == Len(SelectSeq(log, LAMBDA callback : callback = "onComplete"))

\* C35: when an invocation of generateImageStream returns it has called
\* onComplete exactly once, on success and on every failure path, for each
\* of the three adapters
C35_OnCompleteExactlyOnce ==
    [][\A c \in calls :
          (/\ ~Restart
           /\ \A d \in calls' : d.item # c.item
           /\ InQueue(items', c.item))
              => OnCompleteCalls(hist'[c.item].log) = 1]_vars

\* the sequence s is a prefix of the sequence u
IsPrefix(s, u) == Len(s) <= Len(u) /\ SubSeq(u, 1, Len(s)) = s

\* C32: while an item is generating its thought list only grows at the end,
\* and a loadItemImages that settles meanwhile does not put another list,
\* read from the image store, in the place of its interim list
C32_ListsOnlyGrowWhileGenerating ==
    [][\A id \in ItemIds :
          (StatusOf(items, id) = "generating" /\ StatusOf(items', id) = "generating")
              => /\ IsPrefix(ItemOf(items, id).thoughtTexts, ItemOf(items', id).thoughtTexts)
                 /\ LoadItemImagesDone(id)
                       => ItemOf(items', id).interimImages = ItemOf(items, id).interimImages]_vars


C34_ProviderSwitchNormalisesOptions ==
    fn.called = "setCurrentProvider" =>
        LET p == fn.state.currentProvider
            resolutions == PROVIDER_RESOLUTIONS[p]
            aspectRatios == PROVIDER_ASPECT_RATIOS[p]
        IN  /\ fn.state.model = PROVIDER_DEFAULT_MODEL[p]
            /\ fn.state.model \in PROVIDER_MODELS[p]
            /\ ArrayIncludes(resolutions, fn.state.resolution)
            /\ ArrayIncludes(aspectRatios, fn.state.aspectRatio)
            /\ fn.state.resolution = IF ArrayIncludes(resolutions, fn.before.resolution)
                                     THEN fn.before.resolution
                                     ELSE resolutions[1]
            /\ fn.state.aspectRatio = IF ArrayIncludes(aspectRatios, fn.before.aspectRatio)
                                      THEN fn.before.aspectRatio
                                      ELSE aspectRatios[1]

\* a switch from Google to BytePlus that replaces the resolution 1K, which
\* BytePlus does not offer, and keeps the aspect ratio 3:2, which it does
C34_Witness ==
    /\ fn.called = "setCurrentProvider"
    /\ fn.before.currentProvider = "google"
    /\ fn.state.currentProvider = "byteplus"
    /\ fn.before.resolution = "1K"
    /\ fn.state.resolution = "2K"
    /\ fn.before.aspectRatio = "3:2"
    /\ fn.state.aspectRatio = "3:2"

\* width and height of an aspect ratio or of an OpenAI size
Proportion(text) ==
    CASE text = "16:9" -> <<16, 9>>
      [] text = "9:16" -> <<9, 16>>
      [] text = "1:1" -> <<1, 1>>
      [] text = "4:3" -> <<4, 3>>
      [] text = "3:4" -> <<3, 4>>
      [] text = "21:9" -> <<21, 9>>
      [] text = "3:2" -> <<3, 2>>
      [] text = "2:3" -> <<2, 3>>
      [] text = "5:4" -> <<5, 4>>
      [] text = "4:5" -> <<4, 5>>
      [] text = "1024x1024" -> <<1024, 1024>>
      [] text = "1536x1024" -> <<1536, 1024>>
      [] text = "1024x1536" -> <<1024, 1536>>

Abs(n) == IF n < 0 THEN -n ELSE n

\* |a - m1| <= |a - m2| for the quotients width / height of a, m1 and m2
NoFarther(a, m1, m2) ==
    Abs(a[1] * m1[2] - m1[1] * a[2]) * m2[2] <= Abs(a[1] * m2[2] - m2[1] * a[2]) * m1[2]

OpenAISizes == {"1024x1024", "1536x1024", "1024x1536"}

\* C31: mapResolution returns one of 1024x1024, 1536x1024 and 1024x1536: the
\* resolution itself when it is one of them, and otherwise a size whose
\* aspect ratio is at least as near to the requested aspect ratio as that of
\* each of the three, for each of the ten aspect ratios of ASPECT_RATIOS.
C31_MapsToNearestSize ==
    fn.called = "mapResolution" =>
        /\ fn.mapped.size \in OpenAISizes
        /\ fn.mapped.resolution \in OpenAISizes => fn.mapped.size = fn.mapped.resolution
        /\ fn.mapped.resolution \notin OpenAISizes =>
              \A size \in OpenAISizes :
                  NoFarther(Proportion(fn.mapped.aspectRatio), Proportion(fn.mapped.size),
                            Proportion(size))

====
